---- MODULE Spec2Model ----
(***************************************************************************)
(* A model of the jobhunter-bot orchestration core:                        *)
(*   - the SQLite store        (src/src/models/database.py)                *)
(*   - the Job / Application models (src/backend/src/models/*.py)          *)
(*   - the APScheduler daemon  (src/src/bot/job_hunter_daemon.py)   "sd_"  *)
(*   - the schedule-lib daemon (src/backend/src/bot/job_hunter_daemon.py)  *)
(*                                                                  "bd_"  *)
(*   - the simplified bot      (src/backend/simple_jobhunter.py)    "sj_"  *)
(* Each part has its own specification over its own variables; the other   *)
(* parts' variables stay at their initial values.                           *)
(***************************************************************************)
EXTENDS Integers, Sequences, FiniteSets, TLC

VARIABLES
    \* ---- store: Database (sqlite tables) and live Application objects
    jobs,       \* jobs table: the set of rows (id is the primary key)
    apps,       \* applications table: the set of rows (id is the primary key)
    objs,       \* Application objects held by callers, by handle
    now,        \* the value datetime.now() returns
    nextId,     \* number of Application ids generated so far
    \* ---- SimpleJobHunter
    sj_jobs,    \* jobs table rows: [id, url]
    sj_apps,    \* applications table rows: [job_id, url, success, day]
    sj_day,     \* DATE('now')
    sj_pc,      \* position of the (single) thread
    sj_batch,   \* all_jobs of the running cycle
    sj_idx,     \* index of the for loop in process_jobs
    sj_today,   \* the local applications_today of process_jobs
    \* ---- src daemon (APScheduler, threads)
    sd_is_running, sd_sched_running, sd_pid_file, sd_main,
    sd_stats,   \* [jobs_found_today, applications_sent_today]
    sd_db,      \* urls stored in the jobs table
    sd_pc,      \* per search runner ("init" thread, "sched" pool worker)
    sd_found,   \* per runner: new_jobs, the scrapers' results
    sd_processed, \* per runner: processed_jobs
    sd_elig,    \* per runner: eligible_jobs, sorted
    sd_tmp,     \* per runner: the value read by the += in progress
    sd_task,    \* per other scheduled job: "idle" | "run"
    sd_sends,   \* per url: number of applications e-mailed
    sd_fresh,   \* a daily reset has completed and no send has succeeded since
    sd_cycles,  \* number of search invocations started (bounded)
    \* ---- backend daemon (schedule library, one thread, signal handler)
    bd_running, bd_pid_file, bd_scrapers_open, bd_pc, bd_queue,
    bd_stats,   \* stats: [applications_today]; the lifetime totals are left out
    bd_db,      \* urls stored in the jobs table
    bd_apps,    \* urls with a persisted application
    bd_batch, bd_idx,
    bd_new,     \* the local new_jobs of _process_jobs
    bd_sends,   \* per url: number of applications e-mailed
    bd_errors,  \* number of errors logged by the handlers
    bd_stop_req,  \* a signal was delivered
    bd_in_task, \* name of the scheduled job executing, "" if none
    bd_started_after_stop, \* a job was invoked after the signal
    bd_ticks,   \* number of run_pending calls that found a job due (bounded)
    \* ---- scoring
    sc_orig,    \* the posting as it was built
    sc_job,     \* the posting object now
    sc_last,    \* the last scoring call: function, profile, value returned
    \* ---- a cycle's processing of found postings, on the store's jobs table
    pj_last,     \* the posting _process_jobs handled last
    \* ---- the retention sweep of the store
    rt_last,    \* the last retention sweep: its number, horizon and outcome
    \* ---- the control script and the PID file (src/scripts/control.py)
    ct_file,    \* /tmp/jobhunter_daemon.pid: absent, or what it holds
    ct_d,    \* the daemon processes, by name: where each one is
    ct_term,    \* the SIGTERM delivered to a daemon and not handled yet
    ct_stop,    \* the invocation of stop_daemon: position, pid, checks, signals, result
    \* ---- serialisation round trips of Job and Application
    ser_fn,    \* the last round trip made: which one
    ser_in,    \* the object that went in
    ser_out,    \* the object that came out
    \* ---- HTTP requests of the scrapers
    rq_pc,    \* where the running _make_request is
    rq_attempt,    \* the loop variable "attempt"
    rq_hist,    \* what each session.get of this call did
    rq_out,    \* how the call ended: the response returned or the exception raised
    rq_slept,    \* seconds slept by this call
    rq_log,    \* warnings logged
    rq_calls    \* calls made

storeVars == <<jobs, apps, objs, now, nextId>>
sjVars == <<sj_jobs, sj_apps, sj_day, sj_pc, sj_batch, sj_idx, sj_today>>
sdVars == <<sd_is_running, sd_sched_running, sd_pid_file, sd_main, sd_stats,
            sd_db, sd_pc, sd_found, sd_processed, sd_elig, sd_tmp, sd_task,
            sd_sends, sd_fresh, sd_cycles>>
bdVars == <<bd_running, bd_pid_file, bd_scrapers_open, bd_pc, bd_queue,
            bd_stats, bd_db, bd_apps, bd_batch, bd_idx, bd_new, bd_sends, bd_errors,
            bd_stop_req, bd_in_task, bd_started_after_stop, bd_ticks>>
scVars == <<sc_orig, sc_job, sc_last>>
pjVars == <<pj_last>>
rtVars == <<rt_last>>
ctVars == <<ct_file, ct_d, ct_term, ct_stop>>
serVars == <<ser_fn, ser_in, ser_out>>
rqVars == <<rq_pc, rq_attempt, rq_hist, rq_out, rq_slept, rq_log, rq_calls>>
vars == <<storeVars, sjVars, sdVars, bdVars, scVars, pjVars, rtVars, ctVars, serVars, rqVars>>

(***************************************************************************)
(* Bounds of the model                                                     *)
(***************************************************************************)
MaxTime == 3        \* datetime.now() takes the values 1..MaxTime
MaxRows == 3        \* rows the jobs table may hold
MaxAttempts == 2    \* Application ids generated
MaxDays == 2                \* days_from_now and the sweep's horizon are drawn from 0..MaxDays
MaxSweeps == 2              \* retention sweeps run
MaxFollowUps == 2           \* follow-ups sent on one attempt
MaxHandles == 2     \* Application objects alive at once
MaxSjRows == 3      \* rows SimpleJobHunter's jobs table may hold
MaxSjBatch == 2     \* postings one SimpleJobHunter cycle finds
MaxSjDay == 2       \* days the SimpleJobHunter model runs through
SjMaxPerDay == 2    \* MAX_APPLICATIONS_PER_DAY given to SimpleJobHunter
SdMaxPerDay == 2    \* MAX_APPLICATIONS_PER_DAY given to the src daemon
MaxSdFound == 2     \* postings one search of the src daemon returns
MaxSdCycles == 2    \* search_jobs invocations of the src daemon
BdMaxPerDay == 2    \* MAX_APPLICATIONS_PER_DAY given to the backend daemon
MaxBdFound == 3     \* postings one search of the backend daemon returns
MaxBdTicks == 2     \* run_pending calls of the backend daemon that find a job due
MaxBdDue == 2       \* jobs one run_pending call finds due
MaxBdErrors == 2    \* errors raised inside the backend daemon's cycles

(***************************************************************************)
(* Values                                                                  *)
(***************************************************************************)
Titles == {"t1", "t2"}
Companies == {"c1", "c2"}
Urls == {"", "u1"}          \* "" is Job.url's default: a posting without URL
Descriptions == {"d1", "d2"}
Handles == 1..MaxHandles

NoDate == 0                 \* Python None in a datetime field
Null == <<>>                \* SQL NULL / JSON null in a TEXT column

\* Job.__post_init__: id = md5(f"{title}_{company}_{url}")[:12] when no id is
\* given.  The digest is modelled as injective on the bounded field values.
JobId(title, company, url) == <<title, company, url>>

\* Job(...) as the scrapers and callers construct it (no explicit id).
NewJob(title, company, url, description) ==
    [id |-> JobId(title, company, url), title |-> title, company |-> company,
     url |-> url, description |-> description]

\* datetime.isoformat() / None, as to_dict writes a date field.
IsoFormat(d) == IF d = NoDate THEN Null ELSE <<d>>
\* A from_dict that drops the dates instead of parsing them.
FromIsoDropped(s) == NoDate
\* "if data.get(field): data[field] = datetime.fromisoformat(data[field])"
FromIso(s) == IF s = Null THEN NoDate ELSE s[1]

\* ApplicationStatus: member name -> value.
StatusValue(s) ==
    CASE s = "PENDING" -> "pending"
      [] s = "SENT" -> "sent"
      [] s = "DELIVERED" -> "delivered"
      [] s = "READ" -> "read"
      [] s = "RESPONDED" -> "responded"
      [] s = "FAILED" -> "failed"
\* ApplicationStatus(value): value -> member.
StatusOf(v) ==
    CASE v = "pending" -> "PENDING"
      [] v = "sent" -> "SENT"
      [] v = "delivered" -> "DELIVERED"
      [] v = "read" -> "READ"
      [] v = "responded" -> "RESPONDED"
      [] v = "failed" -> "FAILED"

\* The postings an Application may name in job_id.
AppJobIds == {JobId("t1", "c1", "u1"), JobId("t2", "c1", "u1")}

\* An unused handle.
NoApp ==
    [id |-> 0, job_id |-> JobId("t1", "c1", "u1"), status |-> "PENDING",
     sent_date |-> NoDate, delivered_date |-> NoDate, read_date |-> NoDate,
     response_date |-> NoDate, response_received |-> FALSE,
     follow_up_count |-> 0, last_follow_up_date |-> NoDate,
     next_follow_up_date |-> NoDate]

\* Application(job_id=j): the dataclass defaults; __post_init__ generates a
\* unique id (it mixes in uuid4), modelled as the next unused number.
NewApplication(id, j) ==
    [NoApp EXCEPT !.id = id, !.job_id = j]

\* Application.to_dict, on the modelled fields.
AppToDict(a) ==
    [id |-> a.id, job_id |-> a.job_id, status |-> StatusValue(a.status),
     sent_date |-> IsoFormat(a.sent_date),
     delivered_date |-> IsoFormat(a.delivered_date),
     read_date |-> IsoFormat(a.read_date),
     response_date |-> IsoFormat(a.response_date),
     response_received |-> a.response_received,
     follow_up_count |-> a.follow_up_count,
     last_follow_up_date |-> IsoFormat(a.last_follow_up_date),
     next_follow_up_date |-> IsoFormat(a.next_follow_up_date)]

\* Application.from_dict, on the modelled fields.
AppFromDict(r) ==
    [id |-> r.id, job_id |-> r.job_id, status |-> StatusOf(r.status),
     sent_date |-> FromIso(r.sent_date),
     delivered_date |-> FromIso(r.delivered_date),
     read_date |-> FromIso(r.read_date),
     response_date |-> FromIso(r.response_date),
     response_received |-> r.response_received,
     follow_up_count |-> r.follow_up_count,
     last_follow_up_date |-> FromIso(r.last_follow_up_date),
     next_follow_up_date |-> FromIso(r.next_follow_up_date)]

(***************************************************************************)
(* Application lifecycle methods (pure: object -> object)                  *)
(***************************************************************************)
mark_as_sent(a, t) == [a EXCEPT !.status = "SENT", !.sent_date = t]
mark_as_delivered(a, t) == [a EXCEPT !.status = "DELIVERED", !.delivered_date = t]
mark_as_read(a, t) == [a EXCEPT !.status = "READ", !.read_date = t]
\* add_response with "self.response_date = datetime.now()" left out.
add_response_undated(a, t) ==
    [a EXCEPT !.response_received = TRUE, !.status = "RESPONDED"]
\* add_response
add_response(a, t) ==
    [a EXCEPT !.response_received = TRUE, !.response_date = t,
              !.status = "RESPONDED"]
\* schedule_follow_up(days_from_now): now + timedelta(days)
schedule_follow_up(a, t, days_from_now) ==
    [a EXCEPT !.next_follow_up_date = t + days_from_now]
\* send_follow_up with "self.next_follow_up_date = None" left out.
send_follow_up_keeping_schedule(a, t) ==
    [a EXCEPT !.follow_up_count = @ + 1, !.last_follow_up_date = t]
\* send_follow_up
send_follow_up(a, t) ==
    [a EXCEPT !.follow_up_count = @ + 1, !.last_follow_up_date = t,
              !.next_follow_up_date = NoDate]
\* is_follow_up_due, called at time t
is_follow_up_due(a, t) ==
    IF a.next_follow_up_date = NoDate THEN FALSE
    ELSE t >= a.next_follow_up_date

(***************************************************************************)
(* Database                                                                *)
(***************************************************************************)
\* Database.save_job on the table: UPDATE every column of the row with the
\* job's id when it exists, INSERT otherwise.
save_job(table, job) ==
    {r \in table : r.id # job.id} \cup {job}

\* Database.job_exists: SELECT 1 FROM jobs WHERE url = ?
job_exists(table, url) == \E r \in table : r.url = url

\* Database.save_application on the table: UPDATE every column of the row
\* with the application's id when it exists, INSERT otherwise.
save_application(table, a) ==
    {r \in table : r.id # a.id} \cup {AppToDict(a)}

InitStore ==
    /\ jobs = {}
    /\ apps = {}
    /\ objs = [h \in Handles |-> NoApp]
    /\ now = 1
    /\ nextId = 0

\* The wall clock advances.
Tick ==
    /\ now < MaxTime
    /\ now' = now + 1
    /\ UNCHANGED <<jobs, apps, objs, nextId>>

\* db.save_job(Job(title, company, url, description))
SaveJob ==
    \E t \in Titles, c \in Companies, u \in Urls, d \in Descriptions :
        LET job == NewJob(t, c, u, d) IN
        /\ Cardinality(save_job(jobs, job)) <= MaxRows
        /\ jobs' = save_job(jobs, job)
        /\ UNCHANGED <<apps, objs, now, nextId>>

\* No posting.
NoPosting == NewJob("", "", "", "")

\* _process_jobs of the daemons, one posting found by a search: a posting
\* whose url is already stored is skipped ("continue"), any other is saved.
ProcessFoundJob ==
    \E t \in Titles, c \in Companies, u \in Urls, d \in Descriptions :
        LET job == NewJob(t, c, u, d) IN
        /\ IF job_exists(jobs, job.url)
           THEN UNCHANGED jobs
           ELSE /\ Cardinality(save_job(jobs, job)) <= MaxRows
                /\ jobs' = save_job(jobs, job)
        /\ pj_last' = job
        /\ UNCHANGED <<apps, objs, now, nextId>>

\* a = Application(job_id=j), bound to the free handle h
CreateApplication(h) ==
    \E j \in AppJobIds :
        /\ objs[h].id = 0
        /\ nextId < MaxAttempts
        /\ nextId' = nextId + 1
        /\ objs' = [objs EXCEPT ![h] = NewApplication(nextId + 1, j)]
        /\ UNCHANGED <<jobs, apps, now>>

\* A method of the object at handle h replaces it by a.
Lifecycle(h, a) ==
    /\ objs[h].id # 0
    /\ objs' = [objs EXCEPT ![h] = a]
    /\ UNCHANGED <<jobs, apps, now, nextId>>

MarkAsSent(h) == Lifecycle(h, mark_as_sent(objs[h], now))
MarkAsDelivered(h) == Lifecycle(h, mark_as_delivered(objs[h], now))
MarkAsRead(h) == Lifecycle(h, mark_as_read(objs[h], now))
AddResponse(h) == Lifecycle(h, add_response(objs[h], now))

\* a.schedule_follow_up(days_from_now)
ScheduleFollowUp(h) ==
    \E days_from_now \in 0..MaxDays :
        Lifecycle(h, schedule_follow_up(objs[h], now, days_from_now))

\* a.send_follow_up()
SendFollowUp(h) ==
    /\ objs[h].follow_up_count < MaxFollowUps
    /\ Lifecycle(h, send_follow_up(objs[h], now))

\* db.save_application(a), a the object at handle h
SaveApplication(h) ==
    /\ objs[h].id # 0
    /\ apps' = save_application(apps, objs[h])
    /\ UNCHANGED <<jobs, objs, now, nextId>>

\* a = db.get_application(id), bound to handle h (the handle's previous
\* object is dropped)
GetApplication(h) ==
    \E r \in apps :
        /\ objs' = [objs EXCEPT ![h] = AppFromDict(r)]
        /\ UNCHANGED <<jobs, apps, now, nextId>>

\* the caller drops its reference to the object at handle h
Release(h) ==
    /\ objs[h].id # 0
    /\ objs' = [objs EXCEPT ![h] = NoApp]
    /\ UNCHANGED <<jobs, apps, now, nextId>>

(***************************************************************************)
(* Serialisation: to_dict / from_dict of the two models and the way of a   *)
(* record through the tables (save_* binds the dictionary's values to the  *)
(* columns, _row_to_* and from_dict build the object from the row).        *)
(***************************************************************************)
\* JobStatus: member name -> value, and JobStatus(value).
JobStatusValue(s) ==
    CASE s = "NEW" -> "new"
      [] s = "APPLIED" -> "applied"
      [] s = "REJECTED" -> "rejected"
      [] s = "ARCHIVED" -> "archived"
JobStatusOf(v) ==
    CASE v = "new" -> "NEW"
      [] v = "applied" -> "APPLIED"
      [] v = "rejected" -> "REJECTED"
      [] v = "archived" -> "ARCHIVED"

\* json.dumps of a list: a text, never empty ("[]" for the empty list).
JsonDumps(list) == [json |-> list]
\* "json.loads(x) if x else []"
JsonLoadsOrEmpty(x) == IF x = Null THEN <<>> ELSE x.json
\* sqlite3 binds a Python bool to a BOOLEAN column as the integer 0 or 1
\* and returns the integer.
SqliteBool(b) == [int |-> IF b THEN 1 ELSE 0]

\* Job.__post_init__: "if not self.id" generates the id from title, company
\* and url; an id that was given is kept.
JobPostInit(j) ==
    IF j.id = Null THEN [j EXCEPT !.id = JobId(j.title, "c1", "u1")] ELSE j

\* Job.to_dict, on the modelled fields.
JobToDict(j) ==
    [id |-> j.id, title |-> j.title, status |-> JobStatusValue(j.status),
     remote_ok |-> j.remote_ok, required_skills |-> j.required_skills,
     match_score |-> j.match_score,
     posted_date |-> IsoFormat(j.posted_date),
     found_date |-> <<j.found_date>>]

\* Job.from_dict, on the modelled fields.
JobFromDict(d) ==
    JobPostInit([id |-> d.id, title |-> d.title, status |-> JobStatusOf(d.status),
                 remote_ok |-> d.remote_ok, required_skills |-> d.required_skills,
                 match_score |-> d.match_score,
                 posted_date |-> FromIso(d.posted_date),
                 found_date |-> FromIso(d.found_date)])

\* The row save_job writes for a job: the lists as JSON text, the bool as
\* an integer.
JobRow(j) ==
    [JobToDict(j) EXCEPT !.required_skills = JsonDumps(@),
                         !.remote_ok = SqliteBool(@)]
\* Database._row_to_job
row_to_job(row) ==
    JobFromDict([row EXCEPT !.required_skills = JsonLoadsOrEmpty(@)])

\* The row save_application writes for an attempt.
ApplicationRow(a) ==
    [AppToDict(a) EXCEPT !.response_received = SqliteBool(@)]
\* Database._row_to_application
row_to_application(row) == AppFromDict(row)

\* The Job objects the round trips are made with.
SerJobs ==
    [id : {JobId("t1", "c1", "u1")}, title : {"t1"},
     status : {"NEW", "REJECTED", "ARCHIVED"}, remote_ok : BOOLEAN,
     required_skills : {<<>>, <<"Python">>}, match_score : {Null, <<0>>, <<7>>},
     posted_date : {NoDate, 1}, found_date : {1, 2}]

\* The Application objects the round trips are made with.
SerApps ==
    {a \in [id : {1}, job_id : {JobId("t1", "c1", "u1")},
            status : {"PENDING", "SENT", "RESPONDED", "FAILED"},
            sent_date : {NoDate, 1}, delivered_date : {NoDate},
            read_date : {NoDate}, response_date : {NoDate, 2},
            response_received : BOOLEAN, follow_up_count : {0, 1},
            last_follow_up_date : {NoDate, 2}, next_follow_up_date : {NoDate, 3}] :
        a.response_received => a.response_date # NoDate}

InitSer ==
    /\ ser_fn = "none"
    /\ ser_in = Null
    /\ ser_out = Null

\* Job.from_dict(job.to_dict())
JobDictRoundTrip ==
    \E j \in SerJobs :
        /\ ser_fn' = "job_dict"
        /\ ser_in' = j
        /\ ser_out' = JobFromDict(JobToDict(j))

\* db.save_job(job); db.get_job(job.id)
JobStoreRoundTrip ==
    \E j \in SerJobs :
        /\ ser_fn' = "job_store"
        /\ ser_in' = j
        /\ ser_out' = row_to_job(JobRow(j))

\* Application.from_dict(application.to_dict())
ApplicationDictRoundTrip ==
    \E a \in SerApps :
        /\ ser_fn' = "application_dict"
        /\ ser_in' = a
        /\ ser_out' = AppFromDict(AppToDict(a))

\* db.save_application(application); db.get_application(application.id)
ApplicationStoreRoundTrip ==
    \E a \in SerApps :
        /\ ser_fn' = "application_store"
        /\ ser_in' = a
        /\ ser_out' = row_to_application(ApplicationRow(a))

(***************************************************************************)
(* HTTP requests of the scrapers (BaseScraper._make_request).              *)
(***************************************************************************)
\* Calls of _make_request the model follows, one after the other.
MaxRequests == 2
\* "max_retries = 3", "retry_delay = 5"
max_retries == 3
retry_delay == 5
\* What one session.get(url, params=params, timeout=30) can do: hand back a
\* response (requests does not raise on an HTTP error status, and the
\* method never calls raise_for_status), raise a RequestException, or raise
\* something else (an interrupt while it blocks, a TypeError of the kwargs).
Responses == {"response_200", "response_503"}
RequestExceptions == {"ConnectionError", "Timeout"}
OtherExceptions == {"KeyboardInterrupt"}
GetOutcomes == Responses \cup RequestExceptions \cup OtherExceptions
NoOutcome == [kind |-> "none", value |-> "none"]

InitRq ==
    /\ rq_pc = "idle"
    /\ rq_attempt = 0
    /\ rq_hist = <<>>
    /\ rq_out = NoOutcome
    /\ rq_slept = 0
    /\ rq_log = 0
    /\ rq_calls = 0

\* A variant that never takes the third failure for the last one.
is_last_attempt_never(attempt) == FALSE
\* "if attempt == max_retries - 1: raise"
is_last_attempt(attempt) == attempt = max_retries - 1

\* A caller (search_jobs and the scrapers) calls _make_request;
\* "for attempt in range(max_retries):" starts with attempt 0.
MakeRequest ==
    /\ rq_pc \in {"idle", "returned", "raised"}
    /\ rq_calls < MaxRequests
    /\ rq_calls' = rq_calls + 1
    /\ rq_pc' = "get"
    /\ rq_attempt' = 0
    /\ rq_hist' = <<>>
    /\ rq_out' = NoOutcome
    /\ rq_slept' = 0
    /\ UNCHANGED rq_log

\* "response = self.session.get(...); return response" and the except
\* clause, which catches RequestException only: the last attempt re-raises,
\* an earlier one logs a warning and goes to sleep.
SessionGet ==
    /\ rq_pc = "get"
    /\ \E o \in GetOutcomes :
        /\ rq_hist' = Append(rq_hist, o)
        /\ IF o \in Responses
           THEN /\ rq_pc' = "returned"
                /\ rq_out' = [kind |-> "return", value |-> o]
                /\ UNCHANGED rq_log
           ELSE IF o \in RequestExceptions /\ ~is_last_attempt(rq_attempt)
           THEN /\ rq_pc' = "sleep"
                /\ rq_log' = rq_log + 1
                /\ UNCHANGED rq_out
           ELSE /\ rq_pc' = "raised"
                /\ rq_out' = [kind |-> "raise", value |-> o]
                /\ UNCHANGED rq_log
    /\ UNCHANGED <<rq_attempt, rq_slept, rq_calls>>

\* "time.sleep(retry_delay * (attempt + 1))", then the next turn of the
\* loop; a loop that runs out raises
\* "Exception(f'Failed to make request after {max_retries} attempts')".
Sleep ==
    /\ rq_pc = "sleep"
    /\ rq_slept' = rq_slept + retry_delay * (rq_attempt + 1)
    /\ rq_attempt' = rq_attempt + 1
    /\ IF rq_attempt + 1 < max_retries
       THEN /\ rq_pc' = "get"
            /\ UNCHANGED rq_out
       ELSE /\ rq_pc' = "raised"
            /\ rq_out' = [kind |-> "raise", value |-> "Exception"]
    /\ UNCHANGED <<rq_hist, rq_log, rq_calls>>

(***************************************************************************)
(* Retention sweep (Database.cleanup_old_jobs).  The clock counts days and *)
(* the modelled period is the first MaxTime days of a month.               *)
(***************************************************************************)
\* JobStatus values of the postings the sweep meets.
RtStatuses == {"new", "rejected", "archived"}

\* A posting with the columns the sweep reads: Job(title=..., company="c1",
\* url="u1", status=..., found_date=...).
DatedJob(title, found_date, status) ==
    [id |-> JobId(title, "c1", "u1"), title |-> title, company |-> "c1",
     url |-> "u1", description |-> "d1", found_date |-> found_date,
     status |-> status]

\* datetime.day of the time t.
DayOfMonth(t) == t

\* datetime.replace(day=d) raises ValueError when the month has no day d.
ReplaceDayRaises(d) == d < 1

\* The rows "found_date < ? AND status = 'archived'" selects.
sweep_selected(table, cutoff_date) ==
    {j \in table : j.found_date < cutoff_date /\ j.status = "archived"}

InitRetention == rt_last = [seq |-> 0, days |-> 0, outcome |-> "none"]

\* db.save_job(Job(...)) of a posting found now or earlier, in any status.
SaveDatedJob ==
    \E t \in Titles, f \in 1..now, st \in RtStatuses :
        /\ jobs' = save_job(jobs, DatedJob(t, f, st))
        /\ UNCHANGED <<apps, objs, now, nextId>>

\* db.cleanup_old_jobs(days): the cutoff is now.replace(day=now.day - days);
\* the applications of the selected postings are deleted, then the postings.
CleanupOldJobs ==
    \E days \in 0..MaxDays :
        /\ rt_last.seq < MaxSweeps
        /\ IF ReplaceDayRaises(DayOfMonth(now) - days)
           THEN /\ rt_last' = [seq |-> rt_last.seq + 1, days |-> days,
                               outcome |-> "ValueError"]
                /\ UNCHANGED <<jobs, apps>>
           ELSE LET cutoff_date == now - days
                    selected == sweep_selected(jobs, cutoff_date)
                IN  /\ apps' = {r \in apps :
                                  ~\E j \in selected : j.id = r.job_id}
                    /\ jobs' = jobs \ selected
                    /\ rt_last' = [seq |-> rt_last.seq + 1, days |-> days,
                                   outcome |-> "returned"]
        /\ UNCHANGED <<objs, now, nextId>>

(***************************************************************************)
(* The control script (src/scripts/control.py) and the backend daemon's    *)
(* PID file.  A daemon process is "check" (launched, about to test the PID *)
(* file), "write" (test passed, about to write the file), "running",       *)
(* "stopping" (its SIGTERM handler has run stop(); the task under way goes *)
(* on until the main loop tests its flag), "refused" or "dead".            *)
(***************************************************************************)
Daemons == {"d1", "d2"}

\* What the PID file holds when it exists: text that is no number, the pid
\* of no process, or the pid of a daemon.
PidFileContents == {"garbage", "stale"} \cup Daemons

\* The processes os.kill(pid, 0) finds.
ProcessExists(procs, pid) ==
    pid \in Daemons /\ procs[pid] \in {"check", "write", "running", "stopping"}

\* get_pid() and _is_already_running(): the pid in the file when the file
\* exists, holds a number and that process exists; "None" otherwise.
get_pid(file, procs) ==
    IF file # "absent" /\ ProcessExists(procs, file) THEN file ELSE "None"

\* The PID file after get_pid() / _is_already_running(): a file that names
\* no process is removed.
pid_file_after_get_pid(file, procs) ==
    IF get_pid(file, procs) = "None" THEN "absent" ELSE file

\* "for _ in range(10)" of stop_daemon.
stop_checks == 10

CtIdle == [pc |-> "idle", pid |-> "None", checks |-> 0, signals |-> <<>>,
           result |-> "none"]

InitControl ==
    /\ ct_file = "absent"
    /\ ct_d = [d \in Daemons |-> "none"]
    /\ ct_term = [d \in Daemons |-> FALSE]
    /\ ct_stop = CtIdle

\* A PID file left behind by an earlier run, or none.
InitControlAnyFile ==
    /\ ct_file \in {"absent", "garbage", "stale"}
    /\ ct_d = [d \in Daemons |-> "none"]
    /\ ct_term = [d \in Daemons |-> FALSE]
    /\ ct_stop = CtIdle

\* start_daemon(): refused when is_running(); otherwise the daemon process
\* is launched with Popen.
StartDaemon(d) ==
    /\ ct_d[d] = "none"
    /\ ct_d' = [ct_d EXCEPT ![d] =
                   IF get_pid(ct_file, ct_d) # "None" THEN "refused" ELSE "check"]
    /\ ct_file' = pid_file_after_get_pid(ct_file, ct_d)
    /\ UNCHANGED <<ct_term, ct_stop>>

\* JobHunterDaemon.start(): "if self._is_already_running(): return"
BdIsAlreadyRunning(d) ==
    /\ ct_d[d] = "check"
    /\ ct_d' = [ct_d EXCEPT ![d] =
                   IF get_pid(ct_file, ct_d) # "None" THEN "refused" ELSE "write"]
    /\ ct_file' = pid_file_after_get_pid(ct_file, ct_d)
    /\ UNCHANGED <<ct_term, ct_stop>>

\* JobHunterDaemon.start(): self._write_pid_file(); self.running = True
BdWritePidFile(d) ==
    /\ ct_d[d] = "write"
    /\ ct_file' = d
    /\ ct_d' = [ct_d EXCEPT ![d] = "running"]
    /\ UNCHANGED <<ct_term, ct_stop>>

\* _signal_handler -> stop(): running is cleared and the PID file removed
\* (whatever it holds); the code that was interrupted goes on.
DaemonHandlesTerm(d) ==
    /\ ct_d[d] = "running"
    /\ ct_term[d]
    /\ ct_term' = [ct_term EXCEPT ![d] = FALSE]
    /\ ct_file' = "absent"
    /\ ct_d' = [ct_d EXCEPT ![d] = "stopping"]
    /\ UNCHANGED ct_stop

\* _main_loop finds running false: "finally: self.stop()" removes the PID
\* file again and the process ends.
DaemonExits(d) ==
    /\ ct_d[d] = "stopping"
    /\ ct_file' = "absent"
    /\ ct_d' = [ct_d EXCEPT ![d] = "dead"]
    /\ UNCHANGED <<ct_term, ct_stop>>

\* stop_daemon(): pid = get_pid(); "if not pid: return False"
StopGetPid ==
    /\ ct_stop.pc = "idle"
    /\ LET pid == get_pid(ct_file, ct_d) IN
       ct_stop' = IF pid = "None"
                  THEN [ct_stop EXCEPT !.pc = "done", !.result = "False"]
                  ELSE [ct_stop EXCEPT !.pc = "term", !.pid = pid]
    /\ ct_file' = pid_file_after_get_pid(ct_file, ct_d)
    /\ UNCHANGED <<ct_d, ct_term>>

\* os.kill(pid, signal.SIGTERM); OSError when the process is gone.
StopSendsTerm ==
    /\ ct_stop.pc = "term"
    /\ IF ProcessExists(ct_d, ct_stop.pid)
       THEN /\ ct_stop' = [ct_stop EXCEPT !.pc = "wait",
                                           !.signals = Append(@, "SIGTERM")]
            /\ ct_term' = [ct_term EXCEPT ![ct_stop.pid] = TRUE]
       ELSE /\ ct_stop' = [ct_stop EXCEPT !.pc = "done", !.result = "False"]
            /\ UNCHANGED ct_term
    /\ UNCHANGED <<ct_file, ct_d>>

\* One round of the loop: time.sleep(1); if not is_running(): return True
StopChecks ==
    /\ ct_stop.pc = "wait"
    /\ ct_stop' =
          IF get_pid(ct_file, ct_d) = "None"
          THEN [ct_stop EXCEPT !.pc = "done", !.checks = @ + 1, !.result = "True"]
          ELSE [ct_stop EXCEPT !.checks = @ + 1,
                               !.pc = IF ct_stop.checks + 1 = stop_checks
                                      THEN "kill" ELSE "wait"]
    /\ ct_file' = pid_file_after_get_pid(ct_file, ct_d)
    /\ UNCHANGED <<ct_d, ct_term>>

\* os.kill(pid, signal.SIGKILL): the process ends at once, its PID file
\* stays; OSError when the process is gone already.
StopSendsKill ==
    /\ ct_stop.pc = "kill"
    /\ IF ProcessExists(ct_d, ct_stop.pid)
       THEN /\ ct_stop' = [ct_stop EXCEPT !.pc = "final",
                                           !.signals = Append(@, "SIGKILL")]
            /\ ct_d' = [ct_d EXCEPT ![ct_stop.pid] = "dead"]
            /\ ct_term' = [ct_term EXCEPT ![ct_stop.pid] = FALSE]
       ELSE /\ ct_stop' = [ct_stop EXCEPT !.pc = "done", !.result = "False"]
            /\ UNCHANGED <<ct_d, ct_term>>
    /\ UNCHANGED ct_file

\* time.sleep(1); return not is_running()
StopFinalCheck ==
    /\ ct_stop.pc = "final"
    /\ ct_stop' = [ct_stop EXCEPT !.pc = "done",
                      !.result = IF get_pid(ct_file, ct_d) = "None"
                                 THEN "True" ELSE "False"]
    /\ ct_file' = pid_file_after_get_pid(ct_file, ct_d)
    /\ UNCHANGED <<ct_d, ct_term>>

(***************************************************************************)
(* SimpleJobHunter (src/backend/simple_jobhunter.py)                       *)
(***************************************************************************)
\* AUTO_APPLY, default 'true'
sj_auto_apply == TRUE

\* What the two searches may return: a posting has a source_url and may or
\* may not carry a contact e-mail.
SjPool == [url : {"u1", "u2"}, email : BOOLEAN]
SjBatches == UNION {[1..n -> SjPool] : n \in 0..MaxSjBatch}

\* get_applications_today: COUNT(*) WHERE DATE(sent_at) = DATE('now') AND success
get_applications_today ==
    Cardinality({a \in sj_apps : a.day = sj_day /\ a.success})

\* save_job_to_db: a plain INSERT; the AUTOINCREMENT id is returned.
save_job_to_db(table, job_data) ==
    table \cup {[id |-> Cardinality(table) + 1, url |-> job_data.url]}

\* record_application: INSERT INTO applications (...), sent_at defaults to
\* CURRENT_TIMESTAMP.
record_application(table, job_id, url, success) ==
    table \cup {[id |-> Cardinality(table) + 1, job_id |-> job_id,
                 url |-> url, success |-> success, day |-> sj_day]}

InitSj ==
    /\ sj_jobs = {}
    /\ sj_apps = {}
    /\ sj_day = 1
    /\ sj_pc = "idle"
    /\ sj_batch = <<>>
    /\ sj_idx = 0
    /\ sj_today = 0

\* run_search_cycle up to the first line of process_jobs: the searches
\* return all_jobs, and applications_today is read from the table.
SjStartCycle ==
    \E b \in SjBatches :
        /\ sj_pc = "idle"
        /\ Cardinality(sj_jobs) + Len(b) <= MaxSjRows
        /\ sj_batch' = b
        /\ sj_idx' = 1
        /\ sj_today' = get_applications_today
        /\ sj_pc' = "loop"
        /\ UNCHANGED <<sj_jobs, sj_apps, sj_day>>

\* One iteration of "for job_data in jobs" that reaches the send.
\* sent is the outcome of send_email_with_cv (the SMTP exchange).
SjIterate ==
    \E sent \in BOOLEAN :
        /\ sj_pc = "loop"
        /\ sj_idx <= Len(sj_batch)
        /\ sj_today < SjMaxPerDay
        /\ LET job_data == sj_batch[sj_idx]
               job_id == Cardinality(sj_jobs) + 1
           IN  IF ~job_data.email
               THEN \* "continue": no contact e-mail
                    UNCHANGED <<sj_jobs, sj_apps, sj_today>>
               ELSE /\ sj_jobs' = save_job_to_db(sj_jobs, job_data)
                    /\ IF sj_auto_apply
                       THEN /\ sj_apps' = record_application(sj_apps, job_id,
                                                             job_data.url, sent)
                            /\ sj_today' = IF sent THEN sj_today + 1 ELSE sj_today
                       ELSE UNCHANGED <<sj_apps, sj_today>>
        /\ sj_idx' = sj_idx + 1
        /\ UNCHANGED <<sj_day, sj_pc, sj_batch>>

\* The loop ends: the list is exhausted, or "break" on the daily limit.
SjEndCycle ==
    /\ sj_pc = "loop"
    /\ sj_idx > Len(sj_batch) \/ sj_today >= SjMaxPerDay
    /\ sj_pc' = "idle"
    /\ sj_batch' = <<>>
    /\ sj_idx' = 0
    /\ UNCHANGED <<sj_jobs, sj_apps, sj_day, sj_today>>

\* Midnight passes.
SjNewDay ==
    /\ sj_day < MaxSjDay
    /\ sj_day' = sj_day + 1
    /\ UNCHANGED <<sj_jobs, sj_apps, sj_pc, sj_batch, sj_idx, sj_today>>

(***************************************************************************)
(* src daemon (src/src/bot/job_hunter_daemon.py): BackgroundScheduler with *)
(* a thread pool, plus the thread start() launches for the first search.   *)
(***************************************************************************)
\* The two places search_jobs runs: the thread start() creates, and the
\* scheduler's pool worker for job id 'search_jobs'.
Runners == {"init", "sched"}
\* The other scheduled jobs.
SdTasks == {"reset_daily_stats", "daily_summary", "backup_db"}

\* AUTO_APPLY_ENABLED; the model runs the daemon with it switched on.
sd_auto_apply_enabled == TRUE
\* MIN_JOB_MATCH_SCORE, default 0.7, in percent.
sd_min_match_score == 70

\* The postings the scrapers may return, by url: each site has its own.
SdPool == {"u1", "u2", "u3"}
\* text_analyzer.calculate_match_score(description, title): a deterministic
\* function of the posting, in percent.
SdScore(u) ==
    CASE u = "u1" -> 90
      [] u = "u2" -> 80
      [] u = "u3" -> 50
      [] u = "u4" -> 75
\* Three postings above the minimum score, for a cycle that finds three.
SdEligibleThree == {"u1", "u2", "u4"}
SdUrls == SdPool \cup SdEligibleThree

\* Sequences without repetition, of length at most n.
RECURSIVE SeqsNoRep(_, _)
SeqsNoRep(S, n) ==
    IF n = 0 THEN {<<>>}
    ELSE {<<>>} \cup UNION {{<<x>> \o t : t \in SeqsNoRep(S \ {x}, n - 1)} : x \in S}

SdResults == SeqsNoRep(SdPool, MaxSdFound)

\* db.get_job_by_url(url): the stored posting with this url, if any.
sd_get_job_by_url(db, url) == url \in db

\* [job for job in jobs if job.get('match_score', 0) >= self.min_match_score]
RECURSIVE SdFilter(_)
SdFilter(s) ==
    IF s = <<>> THEN <<>>
    ELSE IF SdScore(Head(s)) >= sd_min_match_score
         THEN <<Head(s)>> \o SdFilter(Tail(s))
         ELSE SdFilter(Tail(s))

\* Insertion of x into a sequence sorted by score, descending, after every
\* element of equal score (list.sort(reverse=True) is stable).
RECURSIVE SdInsert(_, _)
SdInsert(x, s) ==
    IF s = <<>> THEN <<x>>
    ELSE IF SdScore(Head(s)) >= SdScore(x)
         THEN <<Head(s)>> \o SdInsert(x, Tail(s))
         ELSE <<x>> \o s

\* eligible_jobs.sort(key=lambda x: x.get('match_score', 0), reverse=True)
RECURSIVE SdSortDesc(_)
SdSortDesc(s) ==
    IF s = <<>> THEN <<>>
    ELSE SdInsert(s[Len(s)], SdSortDesc(SubSeq(s, 1, Len(s) - 1)))

InitSd ==
    /\ sd_is_running = FALSE
    /\ sd_sched_running = FALSE
    /\ sd_pid_file = FALSE
    /\ sd_main = "new"
    /\ sd_stats = [jobs_found_today |-> 0, applications_sent_today |-> 0]
    /\ sd_db = {}
    /\ sd_pc = [r \in Runners |-> "idle"]
    /\ sd_found = [r \in Runners |-> <<>>]
    /\ sd_processed = [r \in Runners |-> <<>>]
    /\ sd_elig = [r \in Runners |-> <<>>]
    /\ sd_tmp = [r \in Runners |-> 0]
    /\ sd_task = [t \in SdTasks |-> "idle"]
    /\ sd_sends = [u \in SdUrls |-> 0]
    /\ sd_fresh = FALSE
    /\ sd_cycles = 0

\* start(): PID file, is_running, _schedule_tasks, scheduler.start(), the
\* thread for the first search; then the main thread enters its loop.
SdStart ==
    /\ sd_main = "new"
    /\ ~sd_is_running
    /\ sd_pid_file' = TRUE
    /\ sd_is_running' = TRUE
    /\ sd_sched_running' = TRUE
    /\ sd_pc' = [sd_pc EXCEPT !["init"] = "spawned"]
    /\ sd_cycles' = sd_cycles + 1
    /\ sd_main' = "loop"
    /\ UNCHANGED <<sd_stats, sd_db, sd_found, sd_processed, sd_elig, sd_tmp,
                   sd_task, sd_sends, sd_fresh>>

\* _signal_handler: SIGTERM / SIGINT
SdSignal ==
    /\ sd_main = "loop"
    /\ sd_is_running
    /\ sd_is_running' = FALSE
    /\ UNCHANGED <<sd_sched_running, sd_pid_file, sd_main, sd_stats, sd_db,
                   sd_pc, sd_found, sd_processed, sd_elig, sd_tmp, sd_task,
                   sd_sends, sd_fresh, sd_cycles>>

\* stop(), as a function of the state it is called in: the new values of
\* <<is_running, scheduler.running, pid file>>.
sd_stop(is_running, sched_running, pid_file) ==
    IF ~is_running THEN <<is_running, sched_running, pid_file>>   \* "return False"
    ELSE <<FALSE, FALSE, FALSE>>

\* The main loop sees is_running false and leaves; "finally: self.stop()".
SdMainExit ==
    /\ sd_main = "loop"
    /\ ~sd_is_running
    /\ LET after == sd_stop(sd_is_running, sd_sched_running, sd_pid_file) IN
        /\ sd_is_running' = after[1]
        /\ sd_sched_running' = after[2]
        /\ sd_pid_file' = after[3]
    /\ sd_main' = "exited"
    /\ UNCHANGED <<sd_stats, sd_db, sd_pc, sd_found, sd_processed, sd_elig,
                   sd_tmp, sd_task, sd_sends, sd_fresh, sd_cycles>>

\* The scheduler's interval trigger for 'search_jobs' fires.  APScheduler
\* runs at most one instance of a job id (max_instances defaults to 1): a
\* trigger that fires while the job's instance is running is skipped.
\* counted: the invocation is counted in sd_cycles, which bounds the model.
SdTriggerFires(counted) ==
    /\ sd_main = "loop"
    /\ sd_sched_running
    /\ sd_pc["sched"] = "idle"
    /\ counted => sd_cycles < MaxSdCycles
    /\ sd_cycles' = IF counted THEN sd_cycles + 1 ELSE sd_cycles
    /\ sd_pc' = [sd_pc EXCEPT !["sched"] = "spawned"]
    /\ UNCHANGED <<sd_is_running, sd_sched_running, sd_pid_file, sd_main,
                   sd_stats, sd_db, sd_found, sd_processed, sd_elig, sd_tmp,
                   sd_task, sd_sends, sd_fresh>>
SdTrigger == SdTriggerFires(TRUE)

SdRunnerFrame == UNCHANGED <<sd_is_running, sd_sched_running, sd_pid_file,
                             sd_main, sd_task, sd_cycles>>

\* search_jobs, first lines: "if not self.is_running: return"
SdEnter(r) ==
    /\ sd_main = "loop"
    /\ sd_pc[r] = "spawned"
    /\ sd_pc' = [sd_pc EXCEPT ![r] = IF sd_is_running THEN "search" ELSE "idle"]
    /\ UNCHANGED <<sd_stats, sd_db, sd_found, sd_processed, sd_elig, sd_tmp, sd_sends, sd_fresh>>
    /\ SdRunnerFrame

\* The two scrapers' search_jobs(): they return new_jobs, or one of them
\* raises and the except clause of search_jobs ends the cycle.
SdSearchOf(r, results) ==
    /\ sd_main = "loop"
    /\ sd_pc[r] = "search"
    /\ \/ \E res \in results :
            /\ sd_found' = [sd_found EXCEPT ![r] = res]
            /\ sd_processed' = [sd_processed EXCEPT ![r] = <<>>]
            /\ sd_pc' = [sd_pc EXCEPT ![r] = IF res = <<>> THEN "idle" ELSE "proc_check"]
       \/ /\ sd_pc' = [sd_pc EXCEPT ![r] = "idle"]
          /\ UNCHANGED <<sd_found, sd_processed>>
    /\ UNCHANGED <<sd_stats, sd_db, sd_elig, sd_tmp, sd_sends, sd_fresh>>
    /\ SdRunnerFrame
SdSearch(r) == SdSearchOf(r, SdResults)

\* _process_jobs, one iteration, first half: get_job_by_url and "continue"
\* when the posting is stored already.  At the end of the list the cycle
\* goes on to _auto_apply (and to the statistics when nothing is eligible).
SdProcCheck(r) ==
    /\ sd_main = "loop"
    /\ sd_pc[r] = "proc_check"
    /\ IF sd_found[r] = <<>>
       THEN /\ sd_pc' = [sd_pc EXCEPT ![r] =
                    IF sd_auto_apply_enabled THEN "auto_apply" ELSE "stats"]
            /\ UNCHANGED sd_found
       ELSE IF sd_get_job_by_url(sd_db, Head(sd_found[r]))
            THEN /\ sd_found' = [sd_found EXCEPT ![r] = Tail(@)]
                 /\ UNCHANGED sd_pc
            ELSE /\ sd_pc' = [sd_pc EXCEPT ![r] = "proc_save"]
                 /\ UNCHANGED sd_found
    /\ UNCHANGED <<sd_stats, sd_db, sd_processed, sd_elig, sd_tmp, sd_sends, sd_fresh>>
    /\ SdRunnerFrame

\* _process_jobs, one iteration, second half: score, db.save_job,
\* processed.append.  Database.save_job returns True when the row is
\* written and False when the write fails (it catches the exception); the
\* caller does not look at the value.  outcomes: the values it may return.
SdProcSaveOf(r, outcomes) ==
    /\ sd_main = "loop"
    /\ sd_pc[r] = "proc_save"
    /\ \E saved \in outcomes :
          sd_db' = IF saved THEN sd_db \cup {Head(sd_found[r])} ELSE sd_db
    /\ sd_processed' = [sd_processed EXCEPT ![r] = Append(@, Head(sd_found[r]))]
    /\ sd_found' = [sd_found EXCEPT ![r] = Tail(@)]
    /\ sd_pc' = [sd_pc EXCEPT ![r] = "proc_check"]
    /\ UNCHANGED <<sd_stats, sd_elig, sd_tmp, sd_sends, sd_fresh>>
    /\ SdRunnerFrame
\* With a store whose writes succeed.
SdProcSave(r) == SdProcSaveOf(r, {TRUE})
\* With a store whose writes may fail.
SdProcSaveOrFail(r) == SdProcSaveOf(r, BOOLEAN)

\* _auto_apply, up to the loop: the early return on the daily limit, the
\* filter and the sort.
SdAutoApply(r) ==
    /\ sd_main = "loop"
    /\ sd_pc[r] = "auto_apply"
    /\ IF sd_stats.applications_sent_today >= SdMaxPerDay
       THEN /\ sd_pc' = [sd_pc EXCEPT ![r] = "stats"]
            /\ UNCHANGED sd_elig
       ELSE /\ sd_elig' = [sd_elig EXCEPT ![r] = SdSortDesc(SdFilter(sd_processed[r]))]
            /\ sd_pc' = [sd_pc EXCEPT ![r] = "check"]
    /\ UNCHANGED <<sd_stats, sd_db, sd_found, sd_processed, sd_tmp, sd_sends, sd_fresh>>
    /\ SdRunnerFrame

\* for job in eligible_jobs: if applications_sent_today >= max: break
SdCheck(r) ==
    /\ sd_main = "loop"
    /\ sd_pc[r] = "check"
    /\ sd_pc' = [sd_pc EXCEPT ![r] =
            IF sd_elig[r] = <<>> \/ sd_stats.applications_sent_today >= SdMaxPerDay
            THEN "stats" ELSE "send"]
    /\ UNCHANGED <<sd_stats, sd_db, sd_found, sd_processed, sd_elig, sd_tmp, sd_sends, sd_fresh>>
    /\ SdRunnerFrame

\* success = self.email_sender.send_application(job): the e-mail goes out
\* (success), or the sender returns False or raises (no e-mail, next job).
SdSend(r) ==
    /\ sd_main = "loop"
    /\ sd_pc[r] = "send"
    /\ \/ /\ sd_sends' = [sd_sends EXCEPT ![Head(sd_elig[r])] = @ + 1]
          /\ sd_fresh' = FALSE
          /\ sd_pc' = [sd_pc EXCEPT ![r] = "inc_read"]
          /\ UNCHANGED sd_elig
       \/ /\ sd_elig' = [sd_elig EXCEPT ![r] = Tail(@)]
          /\ sd_pc' = [sd_pc EXCEPT ![r] = "check"]
          /\ UNCHANGED <<sd_sends, sd_fresh>>
    /\ UNCHANGED <<sd_stats, sd_db, sd_found, sd_processed, sd_tmp>>
    /\ SdRunnerFrame

\* self.stats['applications_sent_today'] += 1, the read
SdIncRead(r) ==
    /\ sd_main = "loop"
    /\ sd_pc[r] = "inc_read"
    /\ sd_tmp' = [sd_tmp EXCEPT ![r] = sd_stats.applications_sent_today]
    /\ sd_pc' = [sd_pc EXCEPT ![r] = "inc_write"]
    /\ UNCHANGED <<sd_stats, sd_db, sd_found, sd_processed, sd_elig, sd_sends, sd_fresh>>
    /\ SdRunnerFrame

\* self.stats['applications_sent_today'] += 1, the write; next job
SdIncWrite(r) ==
    /\ sd_main = "loop"
    /\ sd_pc[r] = "inc_write"
    /\ sd_stats' = [sd_stats EXCEPT !.applications_sent_today = sd_tmp[r] + 1]
    /\ sd_tmp' = [sd_tmp EXCEPT ![r] = 0]
    /\ sd_elig' = [sd_elig EXCEPT ![r] = Tail(@)]
    /\ sd_pc' = [sd_pc EXCEPT ![r] = "check"]
    /\ UNCHANGED <<sd_db, sd_found, sd_processed, sd_sends, sd_fresh>>
    /\ SdRunnerFrame

\* search_jobs, after _auto_apply: jobs_found_today += len(processed_jobs),
\* the high-match notification, return.
SdStats(r) ==
    /\ sd_main = "loop"
    /\ sd_pc[r] = "stats"
    /\ sd_stats' = [sd_stats EXCEPT !.jobs_found_today = @ + Len(sd_processed[r])]
    /\ sd_processed' = [sd_processed EXCEPT ![r] = <<>>]
    /\ sd_elig' = [sd_elig EXCEPT ![r] = <<>>]
    /\ sd_pc' = [sd_pc EXCEPT ![r] = "idle"]
    /\ UNCHANGED <<sd_db, sd_found, sd_tmp, sd_sends, sd_fresh>>
    /\ SdRunnerFrame

\* The trigger of another scheduled job fires and a pool worker starts it
\* (at most one instance per job id).
SdTaskStart(t) ==
    /\ sd_main = "loop"
    /\ sd_sched_running
    /\ sd_task[t] = "idle"
    /\ sd_task' = [sd_task EXCEPT ![t] = "run"]
    /\ UNCHANGED <<sd_is_running, sd_sched_running, sd_pid_file, sd_main,
                   sd_stats, sd_db, sd_pc, sd_found, sd_processed, sd_elig,
                   sd_tmp, sd_sends, sd_fresh, sd_cycles>>

\* The job's body runs and returns: _reset_daily_stats zeroes the two daily
\* counters; _send_daily_summary and _backup_database change no state here.
SdTaskFinish(t) ==
    /\ sd_main = "loop"
    /\ sd_task[t] = "run"
    /\ sd_task' = [sd_task EXCEPT ![t] = "idle"]
    /\ sd_stats' = IF t = "reset_daily_stats"
                   THEN [jobs_found_today |-> 0, applications_sent_today |-> 0]
                   ELSE sd_stats
    /\ sd_fresh' = IF t = "reset_daily_stats" THEN TRUE ELSE sd_fresh
    /\ UNCHANGED <<sd_is_running, sd_sched_running, sd_pid_file, sd_main,
                   sd_db, sd_pc, sd_found, sd_processed, sd_elig, sd_tmp,
                   sd_sends, sd_cycles>>

\* The process has ended and the program is started again: main() builds a
\* new JobHunterDaemon, whose __init__ sets is_running to False, creates a
\* new scheduler and sets every counter of stats to 0.  The store and the
\* PID file are files and stay as the previous process left them; the
\* e-mails sent stay sent.
SdRestart ==
    /\ sd_main = "exited"
    /\ sd_cycles < MaxSdCycles
    /\ sd_main' = "new"
    /\ sd_is_running' = FALSE
    /\ sd_sched_running' = FALSE
    /\ sd_stats' = [jobs_found_today |-> 0, applications_sent_today |-> 0]
    /\ sd_pc' = [r \in Runners |-> "idle"]
    /\ sd_found' = [r \in Runners |-> <<>>]
    /\ sd_processed' = [r \in Runners |-> <<>>]
    /\ sd_elig' = [r \in Runners |-> <<>>]
    /\ sd_tmp' = [r \in Runners |-> 0]
    /\ sd_task' = [t \in SdTasks |-> "idle"]
    /\ UNCHANGED <<sd_pid_file, sd_db, sd_sends, sd_fresh, sd_cycles>>

(***************************************************************************)
(* backend daemon (src/backend/src/bot/job_hunter_daemon.py): the schedule *)
(* library, run from the main thread's loop; SIGTERM / SIGINT handlers run *)
(* on the same thread, between any two steps of it.                        *)
(***************************************************************************)
\* The jobs _setup_schedule registers (the search is registered once per
\* search time and once per interval; they all run _execute_job_search).
BdSearchJobs == {"search_at", "search_every"}
BdJobs == BdSearchJobs \cup {"cleanup_old_logs", "reset_daily", "daily_report"}

\* AUTO_APPLY; the model runs the daemon with it switched on.
bd_auto_apply == TRUE
\* MIN_MATCH_SCORE, default '70'
bd_min_match_score == 70
\* The score from which the src daemon counts a posting as high-match
\* (0.8 of 1), on the backend daemon's scale of 0..100.
high_match_score == 80

\* The postings the scrapers may return, by url: each site has its own.
BdLinkedInPool == {"u1", "u3"}
BdXPool == {"u2"}
BdPool == BdLinkedInPool \cup BdXPool
\* Three postings above the minimum score, for a cycle that finds three.
BdEligibleThree == {"u1", "u2", "u4"}
BdUrls == BdPool \cup BdEligibleThree
\* job_matcher.calculate_match_score(job): a deterministic function of the
\* posting, 0..100.
BdScore(u) ==
    CASE u = "u1" -> 90
      [] u = "u2" -> 80
      [] u = "u3" -> 50
      [] u = "u4" -> 75
\* What one search of a scraper may return.
BdLinkedInResults == SeqsNoRep(BdLinkedInPool, MaxBdFound)
BdXResults == SeqsNoRep(BdXPool, MaxBdFound)

\* db.application_exists(job.url)
bd_application_exists(table, url) == url \in table

\* _should_apply without its test of the score.
bd_should_apply_any_score(url, applications_today, table) ==
    /\ bd_auto_apply
    /\ ~(applications_today >= BdMaxPerDay)
    /\ ~bd_application_exists(table, url)
\* _should_apply(job)
bd_should_apply(url, applications_today, table) ==
    /\ bd_auto_apply
    /\ ~(BdScore(url) < bd_min_match_score)
    /\ ~(applications_today >= BdMaxPerDay)
    /\ ~bd_application_exists(table, url)

\* The fields of the Application dataclass, the only keyword arguments its
\* constructor accepts.
ApplicationFields ==
    {"id", "job_id", "method", "status", "recipient_email", "subject",
     "message_body", "cover_letter", "resume_sent", "portfolio_sent",
     "cover_letter_sent", "attachments", "created_date", "sent_date",
     "delivered_date", "read_date", "response_date", "response_received",
     "response_content", "response_type", "follow_up_count",
     "last_follow_up_date", "next_follow_up_date", "automated",
     "match_score_at_application", "notes", "tags"}
\* The keyword arguments _apply_to_job passes to Application(...).
BdApplicationKwargs ==
    {"job_url", "status", "sent_at", "email_subject", "response_received"}
\* Application(...) in _apply_to_job returns an object; otherwise it raises
\* TypeError (unexpected keyword argument).
bd_application_built == BdApplicationKwargs \subseteq ApplicationFields

\* _execute_job_search without its "except Exception": the exception leaves
\* the function.
bd_search_except_propagates == "propagates"
\* Where an exception raised inside _execute_job_search ends up: the
\* function's own "except Exception" logs it and sends the error
\* notification, and the function returns normally.
bd_search_except == "caught"

InitBd ==
    /\ bd_running = FALSE
    /\ bd_pid_file = FALSE
    /\ bd_scrapers_open = FALSE
    /\ bd_pc = "new"
    /\ bd_queue = <<>>
    /\ bd_stats = [applications_today |-> 0]
    /\ bd_db = {}
    /\ bd_apps = {}
    /\ bd_batch = <<>>
    /\ bd_idx = 0
    /\ bd_new = 0
    /\ bd_sends = [u \in BdUrls |-> 0]
    /\ bd_errors = 0
    /\ bd_stop_req = FALSE
    /\ bd_in_task = ""
    /\ bd_started_after_stop = FALSE
    /\ bd_ticks = 0

BdDataFrame == UNCHANGED <<bd_stats, bd_db, bd_apps, bd_batch, bd_idx, bd_new, bd_sends>>

\* start() up to the first search: no other instance (no PID file), the PID
\* file is written, running is set, the scrapers are created, the schedule
\* is set up, and (test_mode off) _execute_job_search is called.
BdStart ==
    /\ bd_pc = "new"
    /\ ~bd_pid_file
    /\ bd_pid_file' = TRUE
    /\ bd_running' = TRUE
    /\ bd_scrapers_open' = TRUE
    /\ bd_in_task' = "initial_search"
    /\ bd_pc' = "search"
    /\ UNCHANGED <<bd_queue, bd_errors, bd_stop_req,
                   bd_started_after_stop, bd_ticks>>
    /\ BdDataFrame

\* start() when _initialize_components raises (db.init_database() or the
\* construction of a scraper or notifier fails): the PID file is written and
\* running is set before the call; the exception is logged and re-raised,
\* leaves start() before _setup_schedule, and main() ends the process with
\* sys.exit(1).
BdStartFails ==
    /\ bd_pc = "new"
    /\ ~bd_pid_file
    /\ bd_pid_file' = TRUE
    /\ bd_running' = TRUE
    /\ bd_pc' = "failed"
    /\ UNCHANGED <<bd_scrapers_open, bd_queue, bd_errors, bd_stop_req, bd_in_task,
                   bd_started_after_stop, bd_ticks>>
    /\ BdDataFrame

\* _signal_handler -> stop(): running is cleared, both scrapers are closed,
\* the PID file is removed; then the interrupted code goes on.
BdSignal ==
    /\ bd_pc \notin {"new", "exited", "failed"}
    /\ ~bd_stop_req
    /\ bd_stop_req' = TRUE
    /\ bd_running' = FALSE
    /\ bd_scrapers_open' = FALSE
    /\ bd_pid_file' = FALSE
    /\ UNCHANGED <<bd_pc, bd_queue, bd_errors, bd_in_task,
                   bd_started_after_stop, bd_ticks>>
    /\ BdDataFrame

\* Permutations of a set, as sequences: sorted(runnable_jobs) orders the
\* due jobs by their next run time, which the model does not fix.
Perms(S) == {q \in [1..Cardinality(S) -> S] : \A x \in S : \E i \in DOMAIN q : q[i] = x}

\* _main_loop: "while self.running:" true -> schedule.run_pending() collects
\* the jobs whose run time the wall clock has reached, any set of them.
BdRunPending ==
    \E due \in SUBSET BdJobs :
        /\ bd_pc = "loop"
        /\ bd_running
        /\ Cardinality(due) <= MaxBdDue
        /\ due # {} => bd_ticks < MaxBdTicks
        /\ bd_ticks' = IF due # {} THEN bd_ticks + 1 ELSE bd_ticks
        /\ \E q \in Perms(due) : bd_queue' = q
        /\ bd_pc' = "pending"
        /\ UNCHANGED <<bd_running, bd_pid_file, bd_scrapers_open, bd_errors,
                       bd_stop_req, bd_in_task, bd_started_after_stop>>
        /\ BdDataFrame

\* _main_loop: "while self.running:" false -> "finally: self.stop()".
BdLoopExit ==
    /\ bd_pc = "loop"
    /\ ~bd_running
    /\ bd_running' = FALSE
    /\ bd_scrapers_open' = FALSE
    /\ bd_pid_file' = FALSE
    /\ bd_pc' = "exited"
    /\ UNCHANGED <<bd_queue, bd_errors, bd_stop_req, bd_in_task,
                   bd_started_after_stop, bd_ticks>>
    /\ BdDataFrame

\* run_pending: the next due job is invoked; with none left the loop sleeps
\* and comes back to its condition.
BdRunNext ==
    /\ bd_pc = "pending"
    /\ IF bd_queue = <<>>
       THEN /\ bd_pc' = "loop"
            /\ UNCHANGED <<bd_queue, bd_in_task, bd_started_after_stop>>
       ELSE /\ bd_queue' = Tail(bd_queue)
            /\ bd_in_task' = Head(bd_queue)
            /\ bd_started_after_stop' = (bd_started_after_stop \/ bd_stop_req)
            /\ bd_pc' = IF Head(bd_queue) \in BdSearchJobs THEN "search" ELSE "task"
    /\ UNCHANGED <<bd_running, bd_pid_file, bd_scrapers_open, bd_errors,
                   bd_stop_req, bd_ticks>>
    /\ BdDataFrame

\* The end of an invocation of _execute_job_search: back in start() after
\* the first search (on to _main_loop), or back in run_pending.
BdAfterSearch == IF bd_in_task = "initial_search" THEN "loop" ELSE "pending"

\* An exception is raised inside _execute_job_search.
BdRaiseInSearch ==
    /\ bd_errors' = bd_errors + 1
    /\ bd_in_task' = ""
    /\ bd_batch' = <<>>
    /\ bd_idx' = 0
    /\ bd_new' = 0
    /\ IF bd_search_except = "caught"
       THEN /\ bd_pc' = BdAfterSearch
            /\ UNCHANGED <<bd_running, bd_scrapers_open, bd_pid_file>>
       ELSE \* not caught: it leaves start(), or reaches _main_loop's
            \* "except Exception" and "finally: self.stop()"
            /\ bd_pc' = "exited"
            /\ IF bd_in_task = "initial_search"
               THEN UNCHANGED <<bd_running, bd_scrapers_open, bd_pid_file>>
               ELSE /\ bd_running' = FALSE
                    /\ bd_scrapers_open' = FALSE
                    /\ bd_pid_file' = FALSE

\* _execute_job_search, "self.linkedin_scraper.search_jobs(...)": it returns
\* its postings, or raises; the function's "except Exception" is around the
\* whole body, so a raise here ends the invocation.
BdLinkedInSearch(results) ==
    /\ bd_pc = "search"
    /\ \/ \E res \in results :
            /\ bd_pc' = "search_x"
            /\ bd_batch' = res
            /\ UNCHANGED <<bd_running, bd_scrapers_open, bd_pid_file, bd_errors,
                           bd_in_task, bd_idx, bd_new>>
       \/ /\ bd_errors < MaxBdErrors
          /\ BdRaiseInSearch
    /\ UNCHANGED <<bd_queue, bd_stop_req, bd_started_after_stop, bd_ticks,
                   bd_stats, bd_db, bd_apps, bd_sends>>
BdSearch == BdLinkedInSearch(BdLinkedInResults)

\* _execute_job_search, "self.x_scraper.search_jobs(...)": its postings are
\* added to all_jobs, or it raises and all_jobs is lost with the frame.  With
\* no posting found the statistics are updated and the function returns;
\* otherwise _process_jobs(all_jobs) starts.
BdXSearch(results) ==
    /\ bd_pc = "search_x"
    /\ \/ \E res \in results :
            /\ Len(bd_batch) + Len(res) <= MaxBdFound
            /\ IF bd_batch \o res = <<>>
               THEN /\ bd_pc' = BdAfterSearch
                    /\ bd_in_task' = ""
                    /\ UNCHANGED <<bd_batch, bd_idx>>
               ELSE /\ bd_pc' = "process"
                    /\ bd_batch' = bd_batch \o res
                    /\ bd_idx' = 1
                    /\ UNCHANGED bd_in_task
            /\ bd_new' = 0
            /\ UNCHANGED <<bd_running, bd_scrapers_open, bd_pid_file, bd_errors>>
       \/ /\ bd_errors < MaxBdErrors
          /\ BdRaiseInSearch
    /\ UNCHANGED <<bd_queue, bd_stop_req, bd_started_after_stop, bd_ticks,
                   bd_stats, bd_db, bd_apps, bd_sends>>
BdSearchX == BdXSearch(BdXResults)

\* _process_jobs, one iteration of "for job in jobs".
\*   sent:      application_sender.send_application returned True (the e-mail
\*              is out); _apply_to_job then builds the Application record,
\*              saves it and increments the counters, unless building it
\*              raises: its "except Exception" logs that and returns False
\*   raised:    the iteration raised before the posting was saved; the
\*              loop's "except Exception" logs it and continues
BdProcess ==
    \E sent \in BOOLEAN, raised \in BOOLEAN :
        /\ bd_pc = "process"
        /\ bd_idx <= Len(bd_batch)
        /\ raised => bd_errors < MaxBdErrors
        /\ LET url == bd_batch[bd_idx] IN
           IF raised
           THEN /\ bd_errors' = bd_errors + 1
                /\ UNCHANGED <<bd_db, bd_new, bd_apps, bd_stats, bd_sends>>
           ELSE IF job_exists({[url |-> u] : u \in bd_db}, url)
           THEN UNCHANGED <<bd_db, bd_new, bd_apps, bd_stats, bd_sends, bd_errors>>
           ELSE /\ bd_db' = bd_db \cup {url}
                /\ bd_new' = bd_new + 1
                /\ UNCHANGED bd_errors
                /\ IF bd_should_apply(url, bd_stats.applications_today, bd_apps)
                   THEN /\ bd_sends' = [bd_sends EXCEPT ![url] = IF sent THEN @ + 1 ELSE @]
                        /\ bd_apps' = IF sent /\ bd_application_built
                                      THEN bd_apps \cup {url} ELSE bd_apps
                        /\ bd_stats' = IF sent /\ bd_application_built
                                       THEN [bd_stats EXCEPT !.applications_today = @ + 1]
                                       ELSE bd_stats
                   ELSE UNCHANGED <<bd_apps, bd_stats, bd_sends>>
        /\ bd_idx' = bd_idx + 1
        /\ UNCHANGED <<bd_running, bd_pid_file, bd_scrapers_open, bd_pc,
                       bd_queue, bd_batch, bd_stop_req, bd_in_task,
                       bd_started_after_stop, bd_ticks>>

\* "if new_jobs > 0: self._send_new_jobs_notification(...)": whether
\* _process_jobs emits its notification at the end of the cycle.
bd_sends_new_jobs_notification(new_jobs) == new_jobs > 0

\* _process_jobs after the loop and the rest of _execute_job_search: the
\* new-jobs notification when new_jobs > 0 (it may raise), then
\* the lifetime totals are updated (not modelled) and the function returns.
BdFinishSearch ==
    /\ bd_pc = "process"
    /\ bd_idx > Len(bd_batch)
    /\ \/ /\ bd_pc' = BdAfterSearch
          /\ UNCHANGED bd_stats
          /\ bd_in_task' = ""
          /\ bd_batch' = <<>>
          /\ bd_idx' = 0
          /\ bd_new' = 0
          /\ UNCHANGED <<bd_running, bd_scrapers_open, bd_pid_file, bd_errors>>
       \/ /\ bd_new > 0
          /\ bd_errors < MaxBdErrors
          /\ BdRaiseInSearch
          /\ UNCHANGED bd_stats
    /\ UNCHANGED <<bd_queue, bd_db, bd_apps, bd_sends, bd_stop_req,
                   bd_started_after_stop, bd_ticks>>

\* The other scheduled jobs run and return: _reset_daily_application_count
\* zeroes applications_today; _cleanup_old_logs and _send_daily_report
\* change no state here.
BdTask ==
    /\ bd_pc = "task"
    /\ bd_stats' = IF bd_in_task = "reset_daily"
                   THEN [bd_stats EXCEPT !.applications_today = 0]
                   ELSE bd_stats
    /\ bd_in_task' = ""
    /\ bd_pc' = "pending"
    /\ UNCHANGED <<bd_running, bd_pid_file, bd_scrapers_open, bd_queue,
                   bd_db, bd_apps, bd_batch, bd_idx, bd_new, bd_sends, bd_errors,
                   bd_stop_req, bd_started_after_stop, bd_ticks>>

(***************************************************************************)
(* Scoring: JobMatcher (src/backend/src/utils/job_matcher.py) and          *)
(* Job.calculate_match_score (src/backend/src/models/job.py).              *)
(* A text is the set of the words it is made of; "x in text" is Python's   *)
(* substring test, so a word is found when it is a word of the text or a   *)
(* part of one.  A quotient the code computes in floating point is kept as *)
(* a fraction <<numerator, denominator>>; the final score is in tenths.    *)
(***************************************************************************)
\* The proper substrings among the words the model uses.
SubWords ==
    {<<"py", "python">>, <<"java", "javascript">>, <<"js", "nodejs">>,
     <<"sp", "spain">>, <<"tech", "fintech">>, <<"sql", "postgresql">>,
     <<"postgres", "postgresql">>, <<"git", "github">>, <<"git", "gitlab">>,
     <<"ai", "spain">>, <<"rest", "forest">>}

\* "w in text"
Has(text, w) == \E t \in text : w = t \/ <<w, t>> \in SubWords

\* str.lower() and str.title() on the words that come with capitals.
Lower(w) ==
    CASE w = "Python" -> "python"
      [] w = "Docker" -> "docker"
      [] w = "Django" -> "django"
      [] w = "React" -> "react"
      [] w = "Javascript" -> "javascript"
      [] w = "Java" -> "java"
      [] w = "Aws" -> "aws"
      [] w = "Rust" -> "rust"
      [] OTHER -> w
Title(w) ==
    CASE w = "python" -> "Python"
      [] w = "docker" -> "Docker"
      [] w = "django" -> "Django"
      [] w = "react" -> "React"
      [] w = "javascript" -> "Javascript"
      [] w = "java" -> "Java"
      [] w = "aws" -> "Aws"
      [] w = "rust" -> "Rust"
      [] OTHER -> w

\* self.weights, in hundredths
weights ==
    [skills_match |-> 40, title_match |-> 25, location_match |-> 15,
     salary_match |-> 10, company_preference |-> 10]

\* self.skill_synonyms.get(skill.lower(), [skill.lower()])
skill_synonyms(skill) ==
    CASE skill = "python" -> {"python", "py", "django", "flask", "fastapi"}
      [] skill = "javascript" -> {"javascript", "js", "node.js", "nodejs", "react", "vue", "angular"}
      [] skill = "java" -> {"java", "spring", "springboot"}
      [] skill = "docker" -> {"docker", "containers", "containerization"}
      [] skill = "kubernetes" -> {"kubernetes", "k8s", "orchestration"}
      [] skill = "aws" -> {"aws", "amazon web services", "ec2", "s3", "lambda"}
      [] skill = "sql" -> {"sql", "mysql", "postgresql", "postgres", "database"}
      [] skill = "machine learning" -> {"ml", "machine learning", "ai", "artificial intelligence"}
      [] skill = "devops" -> {"devops", "ci/cd", "jenkins", "gitlab"}
      [] skill = "git" -> {"git", "github", "gitlab", "version control"}
      [] OTHER -> {skill}

\* _calculate_skills_match: the share of the profile's skills with a variant
\* in the posting's title, description or requirements, times 100.
calculate_skills_match(job, profile) ==
    LET job_text == job.title \cup job.description \cup job.requirements
        total_skills == Len(profile.skills)
        matched_skills ==
            Cardinality({i \in 1..total_skills :
                \E variant \in skill_synonyms(Lower(profile.skills[i])) :
                    Has(job_text, variant)})
    IN  IF total_skills > 0 THEN <<matched_skills * 100, total_skills>> ELSE <<0, 1>>

\* _calculate_title_match, from the i-th preferred role on: the first role
\* with a word in the title decides.
RECURSIVE TitleFrom(_, _, _)
TitleFrom(job_title, roles, i) ==
    IF i > Len(roles)
    THEN IF \E m \in {"developer", "engineer", "programmer", "analyst"} : Has(job_title, m)
         THEN <<50, 1>>
         ELSE <<20, 1>>
    ELSE LET role_words == roles[i]
             matching_words ==
                 Cardinality({k \in 1..Len(role_words) : Has(job_title, role_words[k])})
         IN  IF matching_words = Len(role_words) THEN <<100, 1>>
             ELSE IF matching_words > 0 THEN <<matching_words * 80, Len(role_words)>>
             ELSE TitleFrom(job_title, roles, i + 1)
calculate_title_match(job, profile) == TitleFrom(job.title, profile.preferred_roles, 1)

\* _calculate_location_match
calculate_location_match(job, profile) ==
    IF job.location = {} THEN 50
    ELSE IF \E remote \in {"remote", "remoto", "home office"} : Has(job.location, remote)
    THEN 100
    ELSE IF \E i \in 1..Len(profile.location_preferences) :
                Has(job.location, Lower(profile.location_preferences[i]))
    THEN 90
    ELSE IF \E loc \in {"sp", "são paulo", "brasil", "brazil"} : Has(job.location, loc)
    THEN 70
    ELSE 30

\* max(float(num) for num in salary_numbers)
RECURSIVE MaxVal(_)
MaxVal(tokens) ==
    IF Len(tokens) = 1 THEN tokens[1].val
    ELSE LET m == MaxVal(Tail(tokens)) IN IF tokens[1].val > m THEN tokens[1].val ELSE m

\* _calculate_salary_match without "if max_salary < 100: max_salary *= 1000".
calculate_salary_match_no_thousands(job, profile) ==
    IF job.salary.kind = "none" THEN 50
    ELSE IF job.salary.tokens = <<>> THEN 50
    ELSE IF \E i \in DOMAIN job.salary.tokens : ~job.salary.tokens[i].ok THEN 50
    ELSE LET max_salary == MaxVal(job.salary.tokens)
         IN  IF profile.salary_min <= max_salary /\ max_salary <= profile.salary_max
             THEN 100
             ELSE IF max_salary >= profile.salary_min THEN 80
             ELSE 30
\* _calculate_salary_match.  job.salary is None or '' ("none"), or a text
\* ("text") given by the number tokens re.findall(r'[\d.]+') finds in it:
\* ok is whether float() accepts the token.  A token float() rejects raises
\* inside the try, whose "except Exception" returns 50.
calculate_salary_match(job, profile) ==
    IF job.salary.kind = "none" THEN 50
    ELSE IF job.salary.tokens = <<>> THEN 50
    ELSE IF \E i \in DOMAIN job.salary.tokens : ~job.salary.tokens[i].ok THEN 50
    ELSE LET found == MaxVal(job.salary.tokens)
             max_salary == IF found < 100 THEN found * 1000 ELSE found
         IN  IF profile.salary_min <= max_salary /\ max_salary <= profile.salary_max
             THEN 100
             ELSE IF max_salary >= profile.salary_min THEN 80
             ELSE 30

\* _calculate_company_preference
calculate_company_preference(job) ==
    IF job.company = {} THEN 50
    ELSE IF \E company \in {"google", "microsoft", "amazon", "meta", "apple", "netflix",
                            "uber", "airbnb", "spotify", "slack", "github", "gitlab",
                            "nubank", "stone", "mercadolivre", "ifood", "magazine luiza"} :
                Has(job.company, company)
    THEN 90
    ELSE IF \E indicator \in {"startup", "fintech", "tech", "software", "digital"} :
                Has(job.company, indicator)
    THEN 75
    ELSE 60

\* The five sub-scores of calculate_match_score.
SubScores(job, profile) ==
    [skills_match |-> calculate_skills_match(job, profile),
     title_match |-> calculate_title_match(job, profile),
     location_match |-> calculate_location_match(job, profile),
     salary_match |-> calculate_salary_match(job, profile),
     company_preference |-> calculate_company_preference(job)]

\* max(0, min(100, final_score)) on the fraction n / d, d > 0
Clamp(n, d) == IF n < 0 THEN 0 ELSE IF n > 100 * d THEN 100 * d ELSE n

\* round(x, 1) of the fraction n / d >= 0, in tenths: to the nearest tenth,
\* a tie to the even one.
RoundTenths(n, d) ==
    LET q == (10 * n) \div d
        r == (10 * n) % d
    IN  IF 2 * r < d THEN q
        ELSE IF 2 * r > d THEN q + 1
        ELSE IF q % 2 = 0 THEN q ELSE q + 1

\* calculate_match_score with the sub-scores added up unweighted, without
\* the normalisation to 0-100.
calculate_match_score_plain_sum(job, profile) ==
    IF job.salary.kind = "absent" THEN 0
    ELSE LET scores == SubScores(job, profile)
             sd == scores.skills_match[2]
             td == scores.title_match[2]
             n == scores.skills_match[1] * td + scores.title_match[1] * sd
                  + ( scores.location_match + scores.salary_match
                    + scores.company_preference ) * sd * td
             d == sd * td
         IN  RoundTenths(n, d)
\* calculate_match_score(job), in tenths.  A posting object without a
\* salary attribute makes _calculate_salary_match raise AttributeError, which
\* the function's "except Exception" turns into 0.0.
calculate_match_score(job, profile) ==
    IF job.salary.kind = "absent" THEN 0
    ELSE LET scores == SubScores(job, profile)
             sd == scores.skills_match[2]
             td == scores.title_match[2]
             n == weights.skills_match * scores.skills_match[1] * td
                  + weights.title_match * scores.title_match[1] * sd
                  + ( weights.location_match * scores.location_match
                    + weights.salary_match * scores.salary_match
                    + weights.company_preference * scores.company_preference ) * sd * td
             d == 100 * sd * td
         IN  RoundTenths(Clamp(n, d), d)

\* a / b = c / d for fractions with positive denominators
FracEq(x, y) == x[1] * y[2] = y[1] * x[2]

\* Job.extract_skills_from_description: the common skills found in the
\* description and the requirements, in the list's order, title-cased.
common_skills ==
    <<"python", "javascript", "java", "react", "django", "flask",
      "fastapi", "postgresql", "mysql", "mongodb", "redis", "docker",
      "kubernetes", "aws", "gcp", "azure", "git", "linux", "node.js",
      "typescript", "html", "css", "sql", "api", "rest", "graphql">>
RECURSIVE ExtractFrom(_, _)
ExtractFrom(full_text, i) ==
    IF i > Len(common_skills) THEN <<>>
    ELSE IF Has(full_text, common_skills[i])
    THEN <<Title(common_skills[i])>> \o ExtractFrom(full_text, i + 1)
    ELSE ExtractFrom(full_text, i + 1)
extract_skills_from_description(job) ==
    ExtractFrom(job.description \cup job.requirements, 1)

\* The same lines with the extraction repeated on every call and added to
\* the lists the posting already has.
job_fill_skills_appending(job) ==
    LET extracted_skills == extract_skills_from_description(job)
        n == Len(extracted_skills)
    IN  [job EXCEPT
            !.required_skills = @ \o SubSeq(extracted_skills, 1, IF n < 5 THEN n ELSE 5),
            !.nice_to_have_skills = @ \o SubSeq(extracted_skills, 6, n)]
\* Job.calculate_match_score, its first lines: a posting with neither list
\* of skills gets them from its description, the first five as required.
job_fill_skills(job) ==
    IF job.required_skills = <<>> /\ job.nice_to_have_skills = <<>>
    THEN LET extracted_skills == extract_skills_from_description(job)
             n == Len(extracted_skills)
         IN  [job EXCEPT
                 !.required_skills = SubSeq(extracted_skills, 1, IF n < 5 THEN n ELSE 5),
                 !.nice_to_have_skills = SubSeq(extracted_skills, 6, n)]
    ELSE job

LowerSet(s) == {Lower(s[i]) : i \in DOMAIN s}

\* Job.calculate_match_score(user_skills): the posting afterwards and the
\* value returned, 0.7 of the share of required skills the user has plus 0.3
\* of the share of the nice-to-have ones, at most 1.0.
job_calculate_match_score(job, user_skills) ==
    LET filled == job_fill_skills(job)
        required_matches ==
            Cardinality(LowerSet(user_skills) \cap LowerSet(filled.required_skills))
        required_total ==
            IF filled.required_skills # <<>> THEN Len(filled.required_skills) ELSE 1
        nice_matches ==
            Cardinality(LowerSet(user_skills) \cap LowerSet(filled.nice_to_have_skills))
        nice_total ==
            IF filled.nice_to_have_skills # <<>> THEN Len(filled.nice_to_have_skills) ELSE 1
        n == 7 * required_matches * nice_total + 3 * nice_matches * required_total
        d == 10 * required_total * nice_total
        score == IF n > d THEN <<1, 1>> ELSE <<n, d>>
    IN  [job |-> [filled EXCEPT !.match_score = score], score |-> score]

\* The postings and profiles the scoring is applied to.
ScTitles ==
    {{}, {"senior", "backend", "developer"}, {"data", "engineer"}}
ScDescriptions ==
    {{}, {"python", "docker"},
     {"javascript", "react", "django", "docker", "aws", "python"}}
ScLocations == {{}, {"remote"}, {"lisbon"}, {"spain"}}
ScToken(v) == [ok |-> TRUE, val |-> v]
ScSalaries ==
    {[kind |-> "absent", tokens |-> <<>>],
     [kind |-> "none", tokens |-> <<>>],
     [kind |-> "text", tokens |-> <<ScToken(8), ScToken(12)>>],
     [kind |-> "text", tokens |-> <<ScToken(20000)>>],
     [kind |-> "text", tokens |-> <<ScToken(3)>>],
     [kind |-> "text", tokens |-> <<[ok |-> FALSE, val |-> 0]>>]}
ScCompanies == {{}, {"acme"}, {"fintech", "labs"}}
ScRequired == {<<>>, <<"Rust">>}
ScJobs ==
    [title : ScTitles, description : ScDescriptions, requirements : {{}},
     location : ScLocations, salary : ScSalaries, company : ScCompanies,
     required_skills : ScRequired, nice_to_have_skills : {<<>>},
     match_score : {<<0, 1>>}]
ScSkillLists ==
    {<<>>, <<"python", "docker", "rust">>, <<"Python", "aws", "react">>}
ScRoleLists ==
    {<< <<"backend", "developer">> >>,
     << <<"data", "scientist">>, <<"backend", "developer">> >>,
     << <<"senior", "engineer">>, <<"backend", "developer">> >>}
ScProfiles ==
    [skills : ScSkillLists, preferred_roles : ScRoleLists,
     location_preferences : {<<"Lisbon">>},
     salary_min : {8000}, salary_max : {15000}]
ScNoCall ==
    [fn |-> "none", profile |-> CHOOSE p \in ScProfiles : TRUE,
     tenths |-> 0, frac |-> <<0, 1>>]

\* A posting object is built from scraped data; nothing has been scored.
InitScore ==
    /\ sc_orig \in ScJobs
    /\ sc_job = sc_orig
    /\ sc_last = ScNoCall

\* The one posting the specifications of the other parts start with.
InitScoreIdle ==
    /\ sc_orig = CHOOSE j \in ScJobs : j.title = {} /\ j.salary.kind = "absent"
    /\ sc_job = sc_orig
    /\ sc_last = ScNoCall

\* JobMatcher.calculate_match_score(job) under some profile: the posting and
\* the profile are read only.
MatcherScore ==
    \E profile \in ScProfiles :
        /\ sc_last' = [fn |-> "matcher", profile |-> profile,
                       tenths |-> calculate_match_score(sc_job, profile),
                       frac |-> <<0, 1>>]
        /\ UNCHANGED <<sc_orig, sc_job>>

\* job.calculate_match_score(user_skills) with some profile's skills: the
\* posting keeps the skills extracted and the score.
JobScore ==
    \E profile \in ScProfiles :
        LET res == job_calculate_match_score(sc_job, profile.skills) IN
        /\ sc_job' = res.job
        /\ sc_last' = [fn |-> "job", profile |-> profile, tenths |-> 0,
                       frac |-> res.score]
        /\ UNCHANGED sc_orig

(***************************************************************************)
(* Specifications                                                          *)
(***************************************************************************)
Init ==
    InitStore /\ InitSj /\ InitSd /\ InitBd /\ InitScoreIdle /\ pj_last = NoPosting /\ InitRq /\ InitSer /\ InitControl /\ InitRetention

\* Each specification runs one part; the other parts stay as they are.
StoreOnly == UNCHANGED <<sjVars, sdVars, bdVars, scVars, pjVars, rtVars, ctVars, serVars, rqVars>>
PjOnly == UNCHANGED <<sjVars, sdVars, bdVars, scVars, rtVars, ctVars, serVars, rqVars>>
SjOnly == UNCHANGED <<storeVars, sdVars, bdVars, scVars, pjVars, rtVars, ctVars, serVars, rqVars>>
SdOnly == UNCHANGED <<storeVars, sjVars, bdVars, scVars, pjVars, rtVars, ctVars, serVars, rqVars>>
BdOnly == UNCHANGED <<storeVars, sjVars, sdVars, scVars, pjVars, rtVars, ctVars, serVars, rqVars>>
ScOnly == UNCHANGED <<storeVars, sjVars, sdVars, bdVars, pjVars, rtVars, ctVars, serVars, rqVars>>

\* The jobs table under save_job.
NextJobs ==
    \/ SaveJob /\ StoreOnly
SpecJobs == Init /\ [][NextJobs]_vars

\* The jobs table under the cycles' processing of the postings found.
NextProcessJobs ==
    \/ ProcessFoundJob /\ PjOnly
SpecProcessJobs == Init /\ [][NextProcessJobs]_vars

\* One Application object under its lifecycle methods.
NextLifecycle ==
    \/ Tick /\ StoreOnly
    \/ CreateApplication(1) /\ StoreOnly
    \/ MarkAsSent(1) /\ StoreOnly
    \/ MarkAsDelivered(1) /\ StoreOnly
    \/ MarkAsRead(1) /\ StoreOnly
    \/ AddResponse(1) /\ StoreOnly
    \/ Release(1) /\ StoreOnly
SpecLifecycle == Init /\ [][NextLifecycle]_vars

\* One Application object under its follow-up methods, next to the
\* lifecycle methods that must leave the follow-up fields alone.
NextFollowUp ==
    \/ Tick /\ StoreOnly
    \/ CreateApplication(1) /\ StoreOnly
    \/ MarkAsSent(1) /\ StoreOnly
    \/ AddResponse(1) /\ StoreOnly
    \/ ScheduleFollowUp(1) /\ StoreOnly
    \/ SendFollowUp(1) /\ StoreOnly
SpecFollowUp == Init /\ [][NextFollowUp]_vars

\* An attempt that receives responses, in memory and through the table:
\* the object at handle 1 is created, sent, answered and saved; handle 2
\* holds what is loaded from the table, which is answered and saved too.
NextResponse ==
    \/ Tick /\ StoreOnly
    \/ CreateApplication(1) /\ StoreOnly
    \/ MarkAsSent(1) /\ StoreOnly
    \/ \E h \in Handles : AddResponse(h) /\ StoreOnly
    \/ \E h \in Handles : SaveApplication(h) /\ StoreOnly
    \/ GetApplication(2) /\ StoreOnly
SpecResponse == Init /\ [][NextResponse]_vars

\* The two tables under save_job, save_application and the retention
\* sweep, with the clock advancing.
SweepOnly == UNCHANGED <<sjVars, sdVars, bdVars, scVars, pjVars, ctVars, serVars, rqVars>>
NextRetention ==
    \/ Tick /\ StoreOnly
    \/ SaveDatedJob /\ StoreOnly
    \/ CreateApplication(1) /\ StoreOnly
    \/ SaveApplication(1) /\ StoreOnly
    \/ Release(1) /\ StoreOnly
    \/ CleanupOldJobs /\ SweepOnly
SpecRetention == Init /\ [][NextRetention]_vars

\* Calls of _make_request. session.get comes back (timeout=30 makes it
\* raise Timeout otherwise) and time.sleep ends, hence the fairness.
RqOnly == UNCHANGED <<storeVars, sjVars, sdVars, bdVars, scVars, pjVars, rtVars, ctVars, serVars>>
NextRequest ==
    \/ MakeRequest /\ RqOnly
    \/ SessionGet /\ RqOnly
    \/ Sleep /\ RqOnly
SpecRequest ==
    /\ Init /\ [][NextRequest]_vars
    /\ WF_vars(SessionGet /\ RqOnly)
    /\ WF_vars(Sleep /\ RqOnly)

\* Round trips of Job and Application objects.
SerOnly == UNCHANGED <<storeVars, sjVars, sdVars, bdVars, scVars, pjVars, rtVars, ctVars, rqVars>>
NextSer ==
    \/ JobDictRoundTrip /\ SerOnly
    \/ JobStoreRoundTrip /\ SerOnly
    \/ ApplicationDictRoundTrip /\ SerOnly
    \/ ApplicationStoreRoundTrip /\ SerOnly
SpecSer == Init /\ [][NextSer]_vars

\* Daemons are started and one stop_daemon runs, from any PID file an
\* earlier run may have left.
CtOnly == UNCHANGED <<storeVars, sjVars, sdVars, bdVars, scVars, pjVars, rtVars, serVars, rqVars>>
InitAnyPidFile ==
    /\ InitStore /\ InitSj /\ InitSd /\ InitBd /\ InitScoreIdle
    /\ pj_last = NoPosting /\ InitRq /\ InitSer /\ InitRetention /\ InitControlAnyFile
NextControl ==
    \/ \E d \in Daemons : StartDaemon(d) /\ CtOnly
    \/ \E d \in Daemons : BdIsAlreadyRunning(d) /\ CtOnly
    \/ \E d \in Daemons : BdWritePidFile(d) /\ CtOnly
    \/ \E d \in Daemons : DaemonHandlesTerm(d) /\ CtOnly
    \/ \E d \in Daemons : DaemonExits(d) /\ CtOnly
    \/ StopGetPid /\ CtOnly
    \/ StopSendsTerm /\ CtOnly
    \/ StopChecks /\ CtOnly
    \/ StopSendsKill /\ CtOnly
    \/ StopFinalCheck /\ CtOnly
SpecControl == InitAnyPidFile /\ [][NextControl]_vars

\* Application objects and the applications table: objects are created,
\* marked as sent, saved, loaded and dropped.
NextApps ==
    \/ Tick /\ StoreOnly
    \/ \E h \in Handles : CreateApplication(h) /\ StoreOnly
    \/ \E h \in Handles : MarkAsSent(h) /\ StoreOnly
    \/ \E h \in Handles : SaveApplication(h) /\ StoreOnly
    \/ \E h \in Handles : GetApplication(h) /\ StoreOnly
    \/ \E h \in Handles : Release(h) /\ StoreOnly
SpecApps == Init /\ [][NextApps]_vars

\* SimpleJobHunter's cycles.
NextSj ==
    \/ SjStartCycle /\ SjOnly
    \/ SjIterate /\ SjOnly
    \/ SjEndCycle /\ SjOnly
    \/ SjNewDay /\ SjOnly
SpecSj == Init /\ [][NextSj]_vars

\* The src daemon.
NextSd ==
    \/ SdStart /\ SdOnly
    \/ SdSignal /\ SdOnly
    \/ SdMainExit /\ SdOnly
    \/ SdTrigger /\ SdOnly
    \/ \E r \in Runners : SdEnter(r) /\ SdOnly
    \/ \E r \in Runners : SdSearch(r) /\ SdOnly
    \/ \E r \in Runners : SdProcCheck(r) /\ SdOnly
    \/ \E r \in Runners : SdProcSave(r) /\ SdOnly
    \/ \E r \in Runners : SdAutoApply(r) /\ SdOnly
    \/ \E r \in Runners : SdCheck(r) /\ SdOnly
    \/ \E r \in Runners : SdSend(r) /\ SdOnly
    \/ \E r \in Runners : SdIncRead(r) /\ SdOnly
    \/ \E r \in Runners : SdIncWrite(r) /\ SdOnly
    \/ \E r \in Runners : SdStats(r) /\ SdOnly
    \/ \E t \in SdTasks : SdTaskStart(t) /\ SdOnly
    \/ \E t \in SdTasks : SdTaskFinish(t) /\ SdOnly
SpecSd == Init /\ [][NextSd]_vars

\* The src daemon with a main thread that keeps running: its loop wakes up
\* every ten seconds and tests is_running, so it cannot stay forever in a
\* state where the test fails without leaving the loop.
SpecSdFair == SpecSd /\ WF_vars(SdMainExit /\ SdOnly)

\* The src daemon stopped and started again within one day: each process
\* runs the search start() launches (the interval of the scheduled search
\* and the times of the daily jobs are not reached).  A write of the store
\* may fail.
NextSdRestart ==
    \/ SdStart /\ SdOnly
    \/ SdSignal /\ SdOnly
    \/ SdMainExit /\ SdOnly
    \/ SdRestart /\ SdOnly
    \/ SdEnter("init") /\ SdOnly
    \/ SdSearch("init") /\ SdOnly
    \/ SdProcCheck("init") /\ SdOnly
    \/ SdProcSaveOrFail("init") /\ SdOnly
    \/ SdAutoApply("init") /\ SdOnly
    \/ SdCheck("init") /\ SdOnly
    \/ SdSend("init") /\ SdOnly
    \/ SdIncRead("init") /\ SdOnly
    \/ SdIncWrite("init") /\ SdOnly
    \/ SdStats("init") /\ SdOnly
SpecSdRestart == Init /\ [][NextSdRestart]_vars

\* The src daemon kept running over the days.  The search start() launches
\* finds nothing; from then on both sites list the same three postings
\* above the minimum score: every scheduled search that returns, returns
\* the three, in any order.  The scheduler fires the search again and again,
\* and the daily reset.
SdSearchNone == SdSearchOf("init", {<<>>})
SdSearchThree == SdSearchOf("sched", Perms(SdEligibleThree))
SdTriggerAgain == SdTriggerFires(FALSE)
SdDailyReset == SdTaskStart("reset_daily_stats") \/ SdTaskFinish("reset_daily_stats")
NextSdQuota ==
    \/ SdStart /\ SdOnly
    \/ SdTriggerAgain /\ SdOnly
    \/ SdDailyReset /\ SdOnly
    \/ \E r \in Runners : SdEnter(r) /\ SdOnly
    \/ SdSearchNone /\ SdOnly
    \/ SdSearchThree /\ SdOnly
    \/ SdProcCheck("sched") /\ SdOnly
    \/ SdProcSave("sched") /\ SdOnly
    \/ SdAutoApply("sched") /\ SdOnly
    \/ SdCheck("sched") /\ SdOnly
    \/ SdSend("sched") /\ SdOnly
    \/ SdIncRead("sched") /\ SdOnly
    \/ SdIncWrite("sched") /\ SdOnly
    \/ SdStats("sched") /\ SdOnly
SpecSdQuota == Init /\ [][NextSdQuota]_vars

\* The same, with the threads and the scheduler doing their work: a thread
\* that can take its next step takes it, the interval trigger and the daily
\* cron trigger go on firing, and the sites are not down for ever (a search
\* returns its postings again and again).
SpecSdQuotaFair ==
    /\ SpecSdQuota
    /\ WF_vars(SdTriggerAgain /\ SdOnly)
    /\ WF_vars(SdDailyReset /\ SdOnly)
    /\ WF_vars((\E r \in Runners : SdEnter(r)) /\ SdOnly)
    /\ SF_vars(SdSearchThree /\ sd_pc'["sched"] = "proc_check" /\ SdOnly)
    /\ WF_vars(SdProcCheck("sched") /\ SdOnly)
    /\ WF_vars(SdProcSave("sched") /\ SdOnly)
    /\ WF_vars(SdAutoApply("sched") /\ SdOnly)
    /\ WF_vars(SdCheck("sched") /\ SdOnly)
    /\ WF_vars(SdSend("sched") /\ SdOnly)
    /\ WF_vars(SdIncRead("sched") /\ SdOnly)
    /\ WF_vars(SdIncWrite("sched") /\ SdOnly)
    /\ WF_vars(SdStats("sched") /\ SdOnly)

\* The backend daemon.
NextBd ==
    \/ BdStart /\ BdOnly
    \/ BdStartFails /\ BdOnly
    \/ BdSignal /\ BdOnly
    \/ BdRunPending /\ BdOnly
    \/ BdLoopExit /\ BdOnly
    \/ BdRunNext /\ BdOnly
    \/ BdSearch /\ BdOnly
    \/ BdSearchX /\ BdOnly
    \/ BdProcess /\ BdOnly
    \/ BdFinishSearch /\ BdOnly
    \/ BdTask /\ BdOnly
SpecBd == Init /\ [][NextBd]_vars

\* The backend daemon's first cycle when LinkedIn returns three postings
\* above the minimum score, in any order, and X none.
BdSearchThree == BdLinkedInSearch(Perms(BdEligibleThree))
BdSearchXNone == BdXSearch({<<>>})
NextBdQuota ==
    \/ BdStart /\ BdOnly
    \/ BdSearchThree /\ BdOnly
    \/ BdSearchXNone /\ BdOnly
    \/ BdProcess /\ BdOnly
    \/ BdFinishSearch /\ BdOnly
SpecBdQuota == Init /\ [][NextBdQuota]_vars

\* The backend daemon's first cycle on an empty store, with what the
\* scrapers may return: every posting stored at its end was newly found in
\* this cycle.
NextBdFirstCycle ==
    \/ BdStart /\ BdOnly
    \/ BdSearch /\ BdOnly
    \/ BdSearchX /\ BdOnly
    \/ BdProcess /\ BdOnly
    \/ BdFinishSearch /\ BdOnly
SpecBdFirstCycle == Init /\ [][NextBdFirstCycle]_vars

\* The two scoring functions applied to a posting, in any order and with
\* any profiles.
NextScore ==
    \/ MatcherScore /\ ScOnly
    \/ JobScore /\ ScOnly
InitAnyPosting ==
    InitStore /\ InitSj /\ InitSd /\ InitBd /\ InitScore /\ pj_last = NoPosting /\ InitRq /\ InitSer /\ InitControl /\ InitRetention
SpecScore == InitAnyPosting /\ [][NextScore]_vars

(***************************************************************************)
(* Properties                                                              *)
(***************************************************************************)
\* A runner of search_jobs is executing the function's body.
SdActive(r) == sd_pc[r] \notin {"idle", "spawned"}

\* C1: the daily sent counter never exceeds max_applications_per_day, and
\* no send is under way while the counter already equals the maximum
\* (src daemon, search_jobs running on two threads).
C1_QuotaRespected ==
    /\ sd_stats.applications_sent_today <= SdMaxPerDay
    /\ \A r \in Runners :
         sd_pc[r] = "send" => sd_stats.applications_sent_today < SdMaxPerDay

\* C2: a posting with a given URL is processed as new at most once: the
\* jobs table never holds two rows for one URL and outreach for one URL is
\* never sent twice (SimpleJobHunter).
C2_ProcessedOnce ==
    /\ \A r1, r2 \in sj_jobs : r1.url = r2.url => r1 = r2
    /\ \A a1, a2 \in sj_apps :
         (a1.url = a2.url /\ a1.success /\ a2.success) => a1 = a2

\* C3: after any sequence of save_job calls the jobs table holds at most
\* one row per URL.
C3_OneRowPerUrl ==
    \A r1, r2 \in jobs : r1.url = r2.url => r1 = r2

\* C4: each posting has at most one attempt whose status is pending or
\* sent in the applications table.
C4_OneOpenAttempt ==
    \A a1, a2 \in apps :
        (/\ a1.job_id = a2.job_id
         /\ a1.status \in {"pending", "sent"}
         /\ a2.status \in {"pending", "sent"}) => a1 = a2

\* The position of a status on pending -> sent -> delivered -> read ->
\* responded.
StatusRank(s) ==
    CASE s = "PENDING" -> 0
      [] s = "SENT" -> 1
      [] s = "DELIVERED" -> 2
      [] s = "READ" -> 3
      [] s = "RESPONDED" -> 4
      [] OTHER -> 5

\* C5: no lifecycle call on an attempt moves its status to an earlier
\* state of pending -> sent -> delivered -> read -> responded.
C5_StatusForward ==
    [][\A h \in Handles :
         (objs[h].id # 0 /\ objs'[h].id = objs[h].id) =>
             StatusRank(objs'[h].status) >= StatusRank(objs[h].status)]_vars

\* A stored date column keeps its value or moves later.
DateKept(old, new) ==
    old # Null => (new # Null /\ FromIso(new) >= FromIso(old))

\* C6: once a date of a stored attempt is set, no later operation on the
\* same id clears it or replaces it with an earlier value.
C6_TimestampsKept ==
    [][\A r1 \in apps : \A r2 \in apps' :
         r1.id = r2.id =>
             /\ DateKept(r1.sent_date, r2.sent_date)
             /\ DateKept(r1.delivered_date, r2.delivered_date)
             /\ DateKept(r1.read_date, r2.read_date)
             /\ DateKept(r1.response_date, r2.response_date)]_vars

\* C7: sent_date of an attempt is set if and only if its status is past
\* pending.
C7_SentDateIffPastPending ==
    \A h \in Handles :
        objs[h].id # 0 =>
            ((objs[h].sent_date # NoDate) <=> (objs[h].status # "PENDING"))

\* C8: no second invocation of search_jobs executes while a previous one
\* is still executing, the one start() launches included.
C8_SearchSingleFlight ==
    ~(SdActive("init") /\ SdActive("sched"))

\* C9: whatever errors the cycles of the backend daemon raise, they are
\* caught: as long as no stop is requested the daemon is running, inside
\* start() or its main loop, with its PID file and its scrapers in place.
C9_ErrorsCaught ==
    (bd_errors > 0 /\ ~bd_stop_req) =>
        /\ bd_running
        /\ bd_pc # "exited"
        /\ bd_pid_file
        /\ bd_scrapers_open
\* A scheduled job is invoked after two cycles have raised, no stop having
\* been requested.
C9_Witness ==
    /\ bd_errors = MaxBdErrors
    /\ ~bd_stop_req
    /\ bd_pc = "task"
    /\ bd_running

\* C10: after stop is requested no invocation starts, and the scrapers are
\* not closed under a search in flight (backend daemon).
C10_GracefulStop ==
    /\ ~bd_started_after_stop
    /\ bd_pc \in {"search", "search_x"} => bd_scrapers_open

\* C11: every value JobMatcher.calculate_match_score returns lies in
\* [0, 100] (here in tenths), whatever the posting and the profile: an empty
\* description, an empty list of profile skills, no salary.
C11_ScoreInRange ==
    sc_last.fn = "matcher" => (0 <= sc_last.tenths /\ sc_last.tenths <= 1000)

\* A posting with an empty description and no salary has been scored under a
\* profile without skills.
C11_Witness ==
    /\ sc_last.fn = "matcher"
    /\ sc_job.description = {}
    /\ sc_job.salary.kind = "none"
    /\ sc_last.profile.skills = <<>>
    /\ sc_last.tenths > 0

\* C12: whatever scoring calls came before, a call returns the value the
\* function gives for the posting as it was built and the profile of the
\* call: equal inputs give equal scores, and what a call leaves in the
\* posting changes no later score.
C12_Deterministic ==
    /\ sc_last.fn = "matcher" =>
           sc_last.tenths = calculate_match_score(sc_orig, sc_last.profile)
    /\ sc_last.fn = "job" =>
           FracEq(sc_last.frac,
                  job_calculate_match_score(sc_orig, sc_last.profile.skills).score)

\* Job.calculate_match_score has been called on a posting that an earlier
\* call filled with extracted skills, of both kinds, and it matched some.
C12_Witness ==
    /\ sc_last.fn = "job"
    /\ sc_orig.required_skills = <<>>
    /\ sc_job.nice_to_have_skills # <<>>
    /\ sc_last.frac[1] > 0
    /\ sc_job.match_score = sc_last.frac

\* The posting and the profile of the worked example: two of three skills
\* in the text, a remote location, the salary text "8k-12k" against the
\* band [8000, 15000], a title with every word of a preferred role, a
\* company of no tier.
C16_ExampleScored ==
    /\ sc_last.fn = "matcher"
    /\ sc_job.title = {"senior", "backend", "developer"}
    /\ sc_job.description = {"python", "docker"}
    /\ sc_job.location = {"remote"}
    /\ sc_job.salary = [kind |-> "text", tokens |-> <<ScToken(8), ScToken(12)>>]
    /\ sc_job.company = {"acme"}
    /\ sc_last.profile.skills = <<"python", "docker", "rust">>
    /\ sc_last.profile.preferred_roles = << <<"backend", "developer">> >>

\* C16: for the worked example the sub-scores are 200/3 (66.7) for skills,
\* 100 for title, location and salary, 60 for the company, and the score is
\* their sum weighted 0.40/0.25/0.15/0.10/0.10, 82.7 to one decimal.
C16_WorkedExample ==
    C16_ExampleScored =>
        LET scores == SubScores(sc_job, sc_last.profile) IN
        /\ FracEq(scores.skills_match, <<200, 3>>)
        /\ RoundTenths(scores.skills_match[1], scores.skills_match[2]) = 667
        /\ FracEq(scores.title_match, <<100, 1>>)
        /\ scores.location_match = 100
        /\ scores.salary_match = 100
        /\ scores.company_preference = 60
        /\ sc_last.tenths = 827

\* The worked example has been scored and the value returned was 82.7.
C16_Witness == C16_ExampleScored /\ sc_last.tenths = 827

\* The first cycle of the backend daemon (daily counter 0 at its start) has
\* gone through a batch of three distinct new postings above the minimum
\* score.
C13_ThreeProcessed ==
    /\ bd_in_task = "initial_search"
    /\ bd_pc = "process"
    /\ Len(bd_batch) = 3
    /\ bd_idx > Len(bd_batch)
    /\ \A i \in 1..3 : BdScore(bd_batch[i]) >= bd_min_match_score
    /\ \A i, k \in 1..3 : i # k => bd_batch[i] # bd_batch[k]

\* C13: with at most BdMaxPerDay = 2 applications a day and the counter at
\* 0, a cycle that finds three new postings above the minimum score sends
\* no more than two applications, and when the first two were sent the
\* third posting gets no send and no attempt record.
C13_QuotaInOneCycle ==
    C13_ThreeProcessed =>
        /\ Cardinality({i \in 1..3 : bd_sends[bd_batch[i]] > 0}) <= BdMaxPerDay
        /\ (bd_sends[bd_batch[1]] > 0 /\ bd_sends[bd_batch[2]] > 0) =>
               (bd_sends[bd_batch[3]] = 0 /\ bd_batch[3] \notin bd_apps)

\* C14: when the search of one source raises, the cycle goes on (backend
\* daemon): after a raise in the LinkedIn search the X search is still made,
\* and after a raise in the X search the postings LinkedIn returned are
\* still processed.
C14_SourceIsolation ==
    [][ /\ (bd_pc = "search" /\ bd_errors' > bd_errors) => bd_pc' = "search_x"
        /\ (bd_pc = "search_x" /\ bd_batch # <<>> /\ bd_errors' > bd_errors) =>
               (bd_pc' = "process" /\ bd_batch' = bd_batch) ]_vars

\* C15: once the cycle has processed a posting, the store holds one row for
\* its URL and that row has the posting's description, the later one when
\* an earlier search returned the URL with another description.
C15_LaterDescriptionStored ==
    pj_last # NoPosting =>
        /\ Cardinality({r \in jobs : r.url = pj_last.url}) = 1
        /\ \A r \in jobs : r.url = pj_last.url => r.description = pj_last.description

\* C17: the daily reset leaves the daily sent counter at 0 whatever it was
\* (so a second reset changes nothing), and once a reset has completed the
\* counter reads 0 until a send succeeds (src daemon).
C17_ResetHolds ==
    sd_fresh => sd_stats.applications_sent_today = 0

\* C18: the daily sent counter is incremented for a send only together
\* with an attempt record persisted as sent, so it never exceeds the number
\* of rows of the applications table in state sent (src daemon, whose store
\* is Database: apps is its applications table).
C18_CountedOnlyWhenPersisted ==
    sd_stats.applications_sent_today <= Cardinality({row \in apps : row.status = "sent"})

\* C19: after SIGTERM or SIGINT reaches the running src daemon (the handler
\* has cleared is_running under the main loop), shutdown eventually
\* completes: the main loop has exited, the scheduler is shut down and the
\* PID file is removed.
C19_ShutdownCompletes ==
    (sd_main = "loop" /\ ~sd_is_running) ~>
        (sd_main = "exited" /\ ~sd_sched_running /\ ~sd_pid_file)

\* C20: when component initialisation fails at start-up and the process
\* ends with a non-zero exit, nothing is left partially started: no PID
\* file, the running flag not set, no job waiting to run (backend daemon).
C20_NothingPartiallyStarted ==
    bd_pc = "failed" => (~bd_pid_file /\ ~bd_running /\ bd_queue = <<>>)

\* The e-mails the src daemon has sent.
SdSendsMade == sd_sends["u1"] + sd_sends["u2"] + sd_sends["u3"] + sd_sends["u4"]

\* C21: when the daemon has been restarted within the day, its daily sent
\* counter equals the number of sends already made that day, and the sends
\* of the day never exceed the daily maximum (src daemon, no daily reset
\* between the runs).
C21_RestartRecoversCount ==
    /\ (sd_main = "new" /\ sd_cycles > 0) =>
            sd_stats.applications_sent_today = SdSendsMade
    /\ SdSendsMade <= SdMaxPerDay

C24_BlockedByStatedReason ==
    [][(bd_pc = "process" /\ bd_idx' = bd_idx + 1) =>
          LET u == bd_batch[bd_idx] IN
          bd_sends'[u] = bd_sends[u] =>
              \/ bd_stats.applications_today >= BdMaxPerDay
              \/ u \in bd_db
              \/ BdScore(u) < bd_min_match_score]_vars

\* The posting u of the running cycle is new and at or above the minimum
\* score, and _auto_apply is about to leave it out because the daily counter
\* has reached the maximum (the early return, or the break in the loop).
SdBlockedByQuota(u) ==
    /\ sd_stats.applications_sent_today >= SdMaxPerDay
    /\ \/ /\ sd_pc["sched"] = "check"
          /\ \E i \in DOMAIN sd_elig["sched"] : sd_elig["sched"][i] = u
       \/ /\ sd_pc["sched"] = "auto_apply"
          /\ SdScore(u) >= sd_min_match_score
          /\ \E i \in DOMAIN sd_processed["sched"] : sd_processed["sched"][i] = u

\* C25: a posting that was eligible and not sent only because the daily
\* quota was reached is sent outreach later on, once the daily counter has
\* been reset and the cycles go on (src daemon).
C25_BlockedIsSentLater ==
    \A u \in SdEligibleThree : SdBlockedByQuota(u) ~> (sd_sends[u] > 0)

\* C26: when the send of an outreach fails, an attempt for the posting is
\* persisted (in state failed, with the error) and the daily sent counter is
\* left as it was: after an iteration of _process_jobs that saved a new
\* posting, decided to apply and got no e-mail out, the applications table
\* holds a record for the posting (backend daemon).
C26_FailedAttemptRecorded ==
    [][(bd_pc = "process" /\ bd_idx' = bd_idx + 1) =>
          LET u == bd_batch[bd_idx] IN
          ( /\ u \notin bd_db /\ u \in bd_db'
            /\ bd_should_apply(u, bd_stats.applications_today, bd_apps)
            /\ bd_sends'[u] = bd_sends[u] )
          => (u \in bd_apps' /\ bd_stats' = bd_stats)]_vars

\* C27: when persisting a newly-seen posting fails, the posting is skipped
\* for the rest of the cycle: an iteration of _process_jobs that leaves the
\* posting out of the jobs table does not add it to the postings counted as
\* new and handed to _auto_apply (src daemon).
C27_UnsavedIsSkipped ==
    [][\A r \in Runners :
         (sd_pc[r] = "proc_save" /\ sd_pc'[r] = "proc_check"
             /\ Head(sd_found[r]) \notin sd_db')
         => sd_processed'[r] = sd_processed[r]]_vars

\* C28: postings without URL that differ in title or company are stored as
\* separate postings and none is taken for a duplicate of another: once the
\* cycle has processed a posting without URL, the store holds a row with
\* that posting's id.
C28_NoUrlStoredSeparately ==
    (pj_last # NoPosting /\ pj_last.url = "") =>
        \E r \in jobs : r.id = pj_last.id

\* The number of words of a role that occur in a title.
RoleWordsIn(job_title, role_words) ==
    Cardinality({k \in 1..Len(role_words) : Has(job_title, role_words[k])})

\* C29: the title sub-score is 100 when every word of some preferred role
\* occurs in the title, wherever that role stands in the list; otherwise
\* matched words / role words x 80 for a role with some word in the title,
\* otherwise 50 for a generic role keyword, otherwise 20.
C29_TitleSubScore ==
    sc_last.fn = "matcher" =>
        LET roles == sc_last.profile.preferred_roles
            title_match == calculate_title_match(sc_job, sc_last.profile)
        IN  IF \E i \in 1..Len(roles) : RoleWordsIn(sc_job.title, roles[i]) = Len(roles[i])
            THEN FracEq(title_match, <<100, 1>>)
            ELSE IF \E i \in 1..Len(roles) : RoleWordsIn(sc_job.title, roles[i]) > 0
            THEN \E i \in 1..Len(roles) :
                    /\ RoleWordsIn(sc_job.title, roles[i]) > 0
                    /\ FracEq(title_match,
                              <<RoleWordsIn(sc_job.title, roles[i]) * 80, Len(roles[i])>>)
            ELSE IF \E m \in {"developer", "engineer", "programmer", "analyst"} :
                        Has(sc_job.title, m)
            THEN FracEq(title_match, <<50, 1>>)
            ELSE FracEq(title_match, <<20, 1>>)

\* C30: the salary sub-score is 50 for a salary that is missing or has no
\* parsable number, and otherwise goes by the largest number of the text
\* (times 1000 when below 100): 100 inside the profile's band, 80 above it,
\* 30 below it.  A missing or unparsable salary changes nothing else: the
\* score returned is the weighted sum of the five sub-scores, clamped and
\* rounded, with 50 for the salary.
C30_SalarySubScore ==
    sc_last.fn = "matcher" =>
        LET profile == sc_last.profile
            scores == SubScores(sc_job, profile)
            found == MaxVal(sc_job.salary.tokens)
            value == IF found < 100 THEN found * 1000 ELSE found
            salary ==
                IF sc_job.salary.kind # "text" \/ sc_job.salary.tokens = <<>>
                   \/ \E i \in DOMAIN sc_job.salary.tokens : ~sc_job.salary.tokens[i].ok
                THEN 50
                ELSE IF value < profile.salary_min THEN 30
                ELSE IF value > profile.salary_max THEN 80
                ELSE 100
            sd == scores.skills_match[2]
            td == scores.title_match[2]
            n == weights.skills_match * scores.skills_match[1] * td
                 + weights.title_match * scores.title_match[1] * sd
                 + ( weights.location_match * scores.location_match
                   + weights.salary_match * salary
                   + weights.company_preference * scores.company_preference ) * sd * td
            d == 100 * sd * td
        IN  /\ sc_job.salary.kind # "absent" => scores.salary_match = salary
            /\ sc_last.tenths = RoundTenths(Clamp(n, d), d)

\* The fields of an attempt other than the three follow-up fields.
OtherFields(a) ==
    <<a.id, a.job_id, a.status, a.sent_date, a.delivered_date, a.read_date,
      a.response_date, a.response_received>>

\* C31: a call that changes follow_up_count raises it by exactly 1, stamps
\* last_follow_up_date with the time of the call, clears
\* next_follow_up_date and leaves every other field as it was; an attempt
\* without a scheduled date gets one only by schedule_follow_up; and an
\* attempt is follow-up-due exactly when next_follow_up_date is set and
\* now >= next_follow_up_date.
C31_FollowUp ==
    /\ [](\A h \in Handles :
            is_follow_up_due(objs[h], now) <=>
                ( objs[h].next_follow_up_date # NoDate
                  /\ now >= objs[h].next_follow_up_date ))
    /\ [][\A h \in Handles :
            (objs[h].id # 0 /\ objs'[h].id = objs[h].id) =>
               /\ objs'[h].follow_up_count # objs[h].follow_up_count =>
                     /\ objs'[h].follow_up_count = objs[h].follow_up_count + 1
                     /\ objs'[h].last_follow_up_date = now
                     /\ objs'[h].next_follow_up_date = NoDate
                     /\ OtherFields(objs'[h]) = OtherFields(objs[h])
                     /\ ~is_follow_up_due(objs'[h], now')
               /\ ( objs[h].next_follow_up_date = NoDate
                    /\ objs'[h].next_follow_up_date # NoDate ) =>
                     \E days_from_now \in 0..MaxDays :
                         objs'[h] = schedule_follow_up(objs[h], now, days_from_now)
               /\ ( objs[h].next_follow_up_date = NoDate
                    /\ objs'[h].next_follow_up_date = NoDate ) =>
                     ~is_follow_up_due(objs'[h], now')]_vars

\* A follow-up was sent, the attempt was scheduled again and is due.
C31_Witness ==
    /\ objs[1].follow_up_count >= 1
    /\ objs[1].last_follow_up_date # NoDate
    /\ objs[1].next_follow_up_date > objs[1].last_follow_up_date
    /\ is_follow_up_due(objs[1], now)

\* C32: in every state of an attempt, in memory or stored,
\* response_received being true implies that response_date is set.
C32_ResponseHasDate ==
    /\ \A h \in Handles :
           objs[h].response_received => objs[h].response_date # NoDate
    /\ \A r \in apps :
           r.response_received => r.response_date # Null

\* An attempt was sent, saved and loaded before any answer; the loaded
\* copy was answered and saved, and the first copy was answered later.
C32_Witness ==
    /\ objs[2].response_received
    /\ objs[2].sent_date # NoDate
    /\ AppToDict(objs[2]) \in apps
    /\ objs[1].response_received
    /\ objs[1].response_date > objs[2].response_date

\* C33: every stored attempt references exactly one posting that is in the
\* jobs table, after save_application and after the retention sweep alike.
C33_AttemptHasPosting ==
    \A r \in apps : Cardinality({j \in jobs : j.id = r.job_id}) = 1

\* C34: a retention sweep returns without error for any horizon in days and
\* removes exactly the postings that are older than the horizon and in a
\* terminal status (archived or rejected).
C34_SweepRemovesOldTerminal ==
    [][rt_last'.seq # rt_last.seq =>
         /\ rt_last'.outcome = "returned"
         /\ jobs' = {j \in jobs :
                       ~( j.found_date < now - rt_last'.days
                          /\ j.status \in {"archived", "rejected"} )}]_vars

\* C35: a step that lowers one of the per-day counters (postings found
\* today, attempts sent today) is the daily reset; no other step of the
\* discovery cycles and tasks, however interleaved, lowers them.
C35_DailyCountersMonotone ==
    [][( sd_stats'.jobs_found_today < sd_stats.jobs_found_today
         \/ sd_stats'.applications_sent_today < sd_stats.applications_sent_today )
       => ( sd_task["reset_daily_stats"] = "run"
            /\ sd_task'["reset_daily_stats"] = "idle" )]_vars

\* C36: at the end of a cycle the notification about the postings found is
\* emitted if and only if at least one high-score posting was newly found
\* in that cycle.
C36_NotifiesIffHighScoreFound ==
    (bd_pc = "process" /\ bd_idx > Len(bd_batch)) =>
        ( bd_sends_new_jobs_notification(bd_new)
          <=> \E u \in bd_db : BdScore(u) >= high_match_score )

\* The daemons that passed the test of start() and have not ended.
DaemonsRunning == {d \in Daemons : ct_d[d] \in {"write", "running", "stopping"}}

\* C37: at most one daemon instance runs at a time; a start that finds the
\* PID file naming a live process is refused, and a start that finds a PID
\* file naming no process removes the file and proceeds.
C37_SingleInstance ==
    /\ [](Cardinality(DaemonsRunning) <= 1)
    /\ [][\A d \in Daemons :
            (ct_d[d] = "check" /\ ct_d'[d] # "check") =>
                IF ct_file # "absent" /\ ProcessExists(ct_d, ct_file)
                THEN ct_d'[d] = "refused" /\ ct_file' = ct_file
                ELSE ct_d'[d] = "write" /\ ct_file' = "absent"]_vars

\* C38: stop_daemon sends SIGTERM first and SIGKILL only after 10 checks
\* that found the daemon running; it makes at most 10 checks in its loop;
\* it reports success only when the process it stopped is no longer
\* running; and when no daemon is running it sends no signal and reports
\* failure.
C38_StopDaemon ==
    /\ ct_stop.signals \in {<<>>, <<"SIGTERM">>, <<"SIGTERM", "SIGKILL">>}
    /\ ct_stop.checks <= stop_checks
    /\ Len(ct_stop.signals) = 2 => ct_stop.checks = stop_checks
    /\ ct_stop.result = "True" => ~ProcessExists(ct_d, ct_stop.pid)
    /\ (ct_stop.pc = "done" /\ ct_stop.pid = "None") =>
           (ct_stop.signals = <<>> /\ ct_stop.result = "False")

\* C39: to_dict followed by from_dict, and save followed by get, give back
\* a Job or an Application equal to the original in every field (a bool
\* that comes back from the store as the integer 0 or 1 is equal to it, as
\* it is in Python); the id, the status and the dates are the original's.
C39_RoundTrip ==
    /\ ser_fn \in {"job_dict", "application_dict"} => ser_out = ser_in
    /\ ser_fn = "job_store" =>
          /\ [ser_out EXCEPT !.remote_ok = ser_in.remote_ok] = ser_in
          /\ ser_out.remote_ok = SqliteBool(ser_in.remote_ok)
    /\ ser_fn = "application_store" =>
          /\ [ser_out EXCEPT !.response_received = ser_in.response_received] = ser_in
          /\ ser_out.response_received = SqliteBool(ser_in.response_received)

\* An answered attempt with all its dates set went through the store.
C39_Witness ==
    /\ ser_fn = "application_store"
    /\ ser_in.status = "RESPONDED"
    /\ ser_in.response_received
    /\ ser_in.sent_date # NoDate
    /\ ser_in.next_follow_up_date # NoDate
    /\ ser_out.response_date = ser_in.response_date

(***************************************************************************)
(* C40: _make_request makes at most 3 attempts for one request; it returns *)
(* the first response obtained, retries after a RequestException on the    *)
(* first and second attempt, re-raises the exception of the third failed   *)
(* attempt, and always terminates (every call that has started ends in a   *)
(* return or a raise, session.get and time.sleep each coming back).        *)
(***************************************************************************)
RqLast == rq_hist[Len(rq_hist)]
RqEarlierAllFailed == \A i \in 1..(Len(rq_hist) - 1) : rq_hist[i] \in RequestExceptions
RqAttemptsBounded ==
    /\ Len(rq_hist) <= max_retries
    /\ rq_pc \in {"get", "sleep"} => rq_attempt < max_retries
RqReturnsFirstResponse ==
    rq_out.kind = "return" =>
        /\ rq_pc = "returned"
        /\ rq_out.value = RqLast
        /\ RqLast \in Responses
        /\ RqEarlierAllFailed
RqRaises ==
    rq_out.kind = "raise" =>
        /\ rq_pc = "raised"
        /\ rq_out.value = RqLast
        /\ RqEarlierAllFailed
        /\ RqLast \in RequestExceptions => Len(rq_hist) = max_retries
RqRetries ==
    (rq_pc = "get" /\ rq_pc' # "get") =>
        LET o == rq_hist'[Len(rq_hist')] IN
        /\ Len(rq_hist') = Len(rq_hist) + 1
        /\ (o \in RequestExceptions /\ Len(rq_hist') < max_retries)
              <=> rq_pc' = "sleep"
RqSleepsThenTriesAgain ==
    rq_pc = "sleep" =>
        /\ rq_pc' = "get"
        /\ rq_attempt' = rq_attempt + 1
        /\ rq_slept' = rq_slept + retry_delay * rq_attempt'
C40_MakeRequest ==
    /\ [](RqAttemptsBounded /\ RqReturnsFirstResponse /\ RqRaises)
    /\ [][RqRetries /\ RqSleepsThenTriesAgain]_vars
    /\ (rq_pc \in {"get", "sleep"}) ~> (rq_pc \in {"returned", "raised"})
\* The second call fails three times and the third exception, a different
\* one from the first two, is the one that is raised, after 5 + 10 seconds
\* of sleep.
C40_Witness ==
    /\ rq_calls = 2
    /\ rq_pc = "raised"
    /\ rq_hist = <<"ConnectionError", "ConnectionError", "Timeout">>
    /\ rq_out = [kind |-> "raise", value |-> "Timeout"]
    /\ rq_slept = 15
====
